---- MODULE Spec2Model ----
(***************************************************************************)
(* Synchronisation core of the Shopify recommendation app:                 *)
(*   SyncService (fullSync / syncSingleProduct / deleteProduct),           *)
(*   ShopifyService (normalizeProductId / transformProduct / fetch),       *)
(*   the Product collection with its compound unique index,                *)
(*   FlaskService (register / clear),                                      *)
(*   WebhookService.registerWebhooks (subscription reconciler).            *)
(*                                                                         *)
(* Every asynchronous operation is a process that is suspended exactly at  *)
(* its awaits (store and network calls); one action is one resumption.     *)
(***************************************************************************)
EXTENDS Integers, Sequences, FiniteSets, Bags, TLC

VARIABLES
    merchants,  \* Merchant collection: shop -> document (or absent)
    mirror,     \* Product collection: sequence of rows in insertion order
    engine,     \* recommendation engine: shop -> registered product list
    procs,      \* bag of the operations in flight
    started,    \* number of operation runs started so far
    past,       \* what has returned so far: "clean", "manual" or "thrown"
    platform,   \* webhook subscriptions held by the merchant platform
    wh,         \* the running registerWebhooks call
    transformed,\* the product transform under study: its input and its result
    oauthStates,\* the OAuth state map: token -> entry
    now,        \* the clock (Date.now())
    auth,       \* the OAuth callbacks answered so far
    settings,   \* MerchantSettings collection
    reco,       \* the recommendation request in hand
    batch,      \* the running syncAllMerchants call
    gql,        \* the running shopifyGraphqlRequest call
    boot        \* the server start: its auto-sync pass and its listener

vars == <<merchants, mirror, engine, procs, started, past, platform, wh,
          transformed, oauthStates, now, auth, settings, reco, batch, gql, boot>>

syncVars == <<merchants, mirror, engine, procs, started, past>>

\* the state of the components beside the synchronisation core and the
\* subscription reconciler
aside == <<transformed, oauthStates, now, auth, settings, reco, batch, gql, boot>>

----------------------------------------------------------------------------
(* Bounds *)

MaxOps == 2       \* operation runs started in one behaviour
MaxSubs == 3      \* subscriptions the platform holds initially

Shops == {"s1", "s2"}

----------------------------------------------------------------------------
(* Sequence helpers *)

Map(s, F(_)) == [i \in 1..Len(s) |-> F(s[i])]

Range(s) == {s[i] : i \in 1..Len(s)}

----------------------------------------------------------------------------
(* ShopifyService.normalizeProductId                                       *)
(* An id string is a sequence of tokens: <<>> is the empty string (or a    *)
(* missing id), " " is white space, GidPrefix is the literal prefix.       *)

GidPrefix == "gid://shopify/Product/"
Space == " "

RECURSIVE TrimLeft(_)
TrimLeft(s) == IF s # <<>> /\ Head(s) = Space THEN TrimLeft(Tail(s)) ELSE s

RECURSIVE TrimRight(_)
TrimRight(s) ==
    IF s # <<>> /\ s[Len(s)] = Space THEN TrimRight(SubSeq(s, 1, Len(s) - 1)) ELSE s

Trim(s) == TrimRight(TrimLeft(s))

normalizeProductId(productId) ==
    LET raw == Trim(productId) IN
    IF raw = <<>> THEN <<>>
    ELSE IF Head(raw) = GidPrefix THEN raw
    ELSE <<GidPrefix>> \o raw

----------------------------------------------------------------------------
(* Raw products as the platform sends them.                                *)
(* variants.form is "edges" for a GraphQL node, "array" for a REST webhook *)
(* payload, "none" when the field is missing.                              *)

BareId(n) == <<ToString(n)>>
Gid(n) == <<GidPrefix, ToString(n)>>
PaddedId(n) == <<Space, ToString(n), Space>>

VariantsOf(v) ==
    IF v = 0 THEN <<>>
    ELSE IF v % 2 = 1 THEN <<[price |-> ToString(v)], [price |-> "1"]>>
    ELSE <<>>

TitleOf(v) == IF v = 0 THEN "" ELSE "T" \o ToString(v)

\* JavaScript values a tags field can hold: a string (its characters), a list
\* (its elements), a number, null, an object; or no field at all (undefined)
Js(type, chars, items) == [type |-> type, chars |-> chars, items |-> items]
Undefined == Js("undefined", <<>>, <<>>)
Null == Js("null", <<>>, <<>>)
Str(chars) == Js("string", chars, <<>>)
Num(n) == Js("number", <<ToString(n)>>, <<>>)
Obj == Js("object", <<>>, <<>>)
List(items) == Js("array", <<>>, items)

RawProduct(id, v, form) ==
    [id |-> id, title |-> TitleOf(v), tags |-> Undefined,
     variants |-> [form |-> IF v = 0 THEN "none" ELSE form, items |-> VariantsOf(v)]]

\* nodes of the paginated GraphQL product query: ids are global ids
Node(n, v) == RawProduct(Gid(n), v, "edges")

CatalogNodes(shop) ==
    IF shop = "s1" THEN {Node(1, 1), Node(2, 1), Node(2, 0)} ELSE {Node(1, 1)}

\* bodies of products/create and products/update webhooks: REST shape
WebhookPayloads(shop) ==
    IF shop = "s1"
    THEN {RawProduct(BareId(1), 1, "array"), RawProduct(Gid(2), 2, "array"),
          RawProduct(PaddedId(2), 0, "array")}
    ELSE {RawProduct(BareId(1), 1, "array")}

\* ids carried by products/delete webhooks
DeleteIds(shop) == IF shop = "s1" THEN {BareId(1), Gid(2), <<>>} ELSE {BareId(1)}

----------------------------------------------------------------------------
(* ShopifyService.transformProduct (id, title, representative price)       *)

Or(a, b) == IF a # "" THEN a ELSE b     \* JavaScript a || b on strings

Comma == ","

\* String(value)
ToStr(value) ==
    IF value.type = "string" THEN value.chars
    ELSE IF value.type = "number" THEN value.chars
    ELSE IF value.type = "object" THEN <<"[object", Space, "Object]">>
    ELSE <<value.type>>

\* a value that || replaces: undefined, null, '', 0
Falsy(value) ==
    \/ value.type \in {"undefined", "null"}
    \/ value.type = "string" /\ value.chars = <<>>
    \/ value.type = "number" /\ value.chars = <<"0">>

\* chars.split(',')
RECURSIVE Split(_)
Split(chars) ==
    IF \A k \in 1..Len(chars) : chars[k] # Comma THEN <<chars>>
    ELSE LET c == CHOOSE k \in 1..Len(chars) :
                    chars[k] = Comma /\ \A j \in 1..(k - 1) : chars[j] # Comma
         IN  <<SubSeq(chars, 1, c - 1)>> \o Split(SubSeq(chars, c + 1, Len(chars)))

\* (variant) the entries are trimmed but the empty ones are kept
transformTagsUnfiltered(rawTags) ==
    IF rawTags.type = "array"
    THEN Map(rawTags.items, LAMBDA t : Trim(ToStr(t)))
    ELSE Map(Split(IF Falsy(rawTags) THEN <<>> ELSE ToStr(rawTags)), Trim)

\* const tags = Array.isArray(rawTags) ? rawTags.map(...).filter(Boolean)
\*            : String(rawTags || '').split(',').map(...).filter(Boolean)
transformTags(rawTags) ==
    IF rawTags.type = "array"
    THEN SelectSeq(Map(rawTags.items, LAMBDA t : Trim(ToStr(t))), LAMBDA t : t # <<>>)
    ELSE SelectSeq(Map(Split(IF Falsy(rawTags) THEN <<>> ELSE ToStr(rawTags)), Trim),
                   LAMBDA t : t # <<>>)

transformProduct(shopifyProduct) ==
    LET graphQlVariants ==
            IF shopifyProduct.variants.form = "edges"
            THEN Map(shopifyProduct.variants.items,
                     LAMBDA variant : [price |-> Or(variant.price, "0")])
            ELSE <<>>
        variants ==
            IF Len(graphQlVariants) > 0 THEN graphQlVariants
            ELSE IF shopifyProduct.variants.form = "array"
                 THEN shopifyProduct.variants.items
                 ELSE <<>>
        firstPrice == IF Len(variants) > 0 THEN variants[1].price ELSE ""
    IN [shopifyProductId |-> normalizeProductId(shopifyProduct.id),
        title |-> Or(shopifyProduct.title, ""),
        tags |-> transformTags(shopifyProduct.tags),
        price |-> Or(firstPrice, "0")]

\* { merchantId: merchant._id, ...transformProduct(sp) }
ProductDoc(shop, sp) ==
    LET t == transformProduct(sp) IN
    [merchantId |-> shop, shopifyProductId |-> t.shopifyProductId,
     title |-> t.title, price |-> t.price]

\* the format conversion every push applies to a stored row
FlaskProduct(p) == [id |-> p.shopifyProductId, title |-> p.title, price |-> p.price]

----------------------------------------------------------------------------
(* The Product collection.  Rows are kept in insertion order; the compound *)
(* unique index on (merchantId, shopifyProductId) rejects a second row     *)
(* with the key of an existing one.                                        *)

SameKey(r, shop, id) == r.merchantId = shop /\ r.shopifyProductId = id

HasKey(rows, shop, id) == \E k \in 1..Len(rows) : SameKey(rows[k], shop, id)

\* variant: the collection without the unique index
UniqueIndexOff(rows, doc) == TRUE

\* productSchema.index({merchantId: 1, shopifyProductId: 1}, {unique: true})
UniqueIndexAdmits(rows, doc) == ~HasKey(rows, doc.merchantId, doc.shopifyProductId)

\* required: true on shopifyProductId and title (an empty string is not a value)
SchemaValid(doc) == doc.shopifyProductId # <<>> /\ doc.title # ""

\* Product.find({ merchantId })
FindByMerchant(rows, shop) == SelectSeq(rows, LAMBDA r : r.merchantId = shop)

\* variant: deleteOne in place of deleteMany (only the first row goes)
DeleteManyFirstOnly(rows, shop) ==
    IF \E k \in 1..Len(rows) : rows[k].merchantId = shop
    THEN LET k == CHOOSE k \in 1..Len(rows) :
                    /\ rows[k].merchantId = shop
                    /\ \A j \in 1..(k - 1) : rows[j].merchantId # shop
         IN SubSeq(rows, 1, k - 1) \o SubSeq(rows, k + 1, Len(rows))
    ELSE rows

\* Product.deleteMany({ merchantId })
DeleteMany(rows, shop) == SelectSeq(rows, LAMBDA r : r.merchantId # shop)

\* ordered bulk write: documents go in one by one, the first duplicate key
\* stops the write and the documents before it stay inserted
RECURSIVE OrderedInsert(_, _)
OrderedInsert(rows, docs) ==
    IF docs = <<>> THEN [rows |-> rows, err |-> "none"]
    ELSE IF ~UniqueIndexAdmits(rows, Head(docs)) THEN [rows |-> rows, err |-> "duplicate"]
    ELSE OrderedInsert(Append(rows, Head(docs)), Tail(docs))

\* Product.insertMany(docs): every document is validated before anything is
\* written; a validation error writes nothing
InsertMany(rows, docs) ==
    IF \E k \in 1..Len(docs) : ~SchemaValid(docs[k])
    THEN [rows |-> rows, err |-> "validation"]
    ELSE OrderedInsert(rows, docs)

FirstMatch(rows, shop, id) ==
    CHOOSE k \in 1..Len(rows) :
        /\ SameKey(rows[k], shop, id)
        /\ \A j \in 1..(k - 1) : ~SameKey(rows[j], shop, id)

\* variant: a plain insert in place of the upsert
FindOneAndUpdateInsertOnly(rows, doc) == Append(rows, doc)

\* Product.findOneAndUpdate({merchantId, shopifyProductId}, doc, {upsert: true})
\* (update validators are off: the document is written as given)
FindOneAndUpdate(rows, doc) ==
    IF HasKey(rows, doc.merchantId, doc.shopifyProductId)
    THEN [rows EXCEPT ![FirstMatch(rows, doc.merchantId, doc.shopifyProductId)] = doc]
    ELSE Append(rows, doc)

\* Product.deleteOne({merchantId, shopifyProductId})
DeleteOne(rows, shop, id) ==
    IF HasKey(rows, shop, id)
    THEN LET k == FirstMatch(rows, shop, id)
         IN SubSeq(rows, 1, k - 1) \o SubSeq(rows, k + 1, Len(rows))
    ELSE rows

----------------------------------------------------------------------------
(* Operations in flight *)

\* the Merchant documents of one shop: whether there is one, what the one that
\* findOne({ shop }) returns holds, and how many documents carry the shop
NoMerchant == [exists |-> FALSE, isActive |-> FALSE, lastSync |-> 0, copies |-> 0]

\* new Merchant({ shop, accessToken, scope }) with the defaults of the schema:
\* isActive: true, lastSync: null
NewMerchant == [exists |-> TRUE, isActive |-> TRUE, lastSync |-> 0, copies |-> 1]

\* the call of an operation, with the Merchant document its findOne({ shop })
\* returns (what is read of it here is isActive)
Begin(op, shop, arg, pc) ==
    [pc |-> pc, op |-> op, shop |-> shop, arg |-> arg,
     fetched |-> <<>>, list |-> <<>>, calls |-> <<>>,
     err |-> "none", hit |-> "none", attempt |-> 1, snap |-> <<>>,
     req |-> <<>>, res |-> 0, log |-> <<>>,
     merchant |-> IF shop \in Shops /\ merchants[shop].exists
                  THEN <<[isActive |-> merchants[shop].isActive]>> ELSE <<>>]

Running == BagToSet(procs)

Finished(p) == p.pc \in {"done", "failed"}

\* no operation is between its call and its return
Quiet == procs = EmptyBag

\* A step that touches nothing shared (a page read from the platform, the
\* return to the caller) commutes with every step of every other operation,
\* so it is taken before anything else is: the interleavings that differ only
\* in where such a step falls reach the same states.
Urgent == \E p \in Running : p.pc \in {"fetch", "done", "failed"}

CanStart(serial) ==
    /\ started < MaxOps
    /\ ~Urgent
    /\ serial => Quiet

Spawn(p) ==
    /\ procs' = procs (+) SetToBag({p})
    /\ started' = started + 1

\* operation p resumes and is q afterwards
Resume(p, q) == procs' = (procs (-) SetToBag({p})) (+) SetToBag({q})

\* the operation throws: catch blocks log and rethrow
Throw(p, reason) == [p EXCEPT !.pc = "failed", !.err = reason]

\* const merchant = await Merchant.findOne({ shop }); if (!merchant) throw
Launch(op, shop, arg, pc) ==
    Spawn(IF merchants[shop].exists
          THEN Begin(op, shop, arg, pc)
          ELSE Throw(Begin(op, shop, arg, pc), "notfound"))

----------------------------------------------------------------------------
(* FlaskService *)

\* variant: the engine adds the products to the list it holds
RegisterAppend(eng, shop, products) == [eng EXCEPT ![shop] = @ \o products]

\* registerMerchantProducts(shop, products): the engine replaces the shop's list
Register(eng, shop, products) == [eng EXCEPT ![shop] = products]

\* clearMerchant(shop)
Clear(eng, shop) == [eng EXCEPT ![shop] = <<>>]

RegisterCall(products) == [kind |-> "register", products |-> products]
ClearCall == [kind |-> "clear", products |-> <<>>]

----------------------------------------------------------------------------
(* SyncService.fullSync *)

\* products of the catalog that the pages read so far did not return
Unread(p) ==
    {n \in CatalogNodes(p.shop) : \A k \in 1..Len(p.fetched) : p.fetched[k].id # n.id}

\* one page of the product query: the nodes of its edges
Pages(p) == {<<>>} \cup {<<n>> : n \in Unread(p)}

\* (variant) each page is written to the mirror as it arrives
FS_FetchPageWriting(p) ==
    /\ p.op = "fs" /\ p.pc = "fetch"
    /\ \/ \E nodes \in Pages(p), hasNextPage \in BOOLEAN :
            /\ hasNextPage =>
                /\ nodes # <<>>
                /\ \E n \in Unread(p) : n.id # nodes[1].id
            /\ mirror' = InsertMany(mirror, Map(nodes, LAMBDA sp : ProductDoc(p.shop, sp))).rows
            /\ Resume(p, [p EXCEPT !.fetched = p.fetched \o nodes,
                                   !.pc = IF hasNextPage THEN "fetch" ELSE "delete"])
       \/ /\ Resume(p, Throw(p, "fetch"))
          /\ UNCHANGED mirror
    /\ UNCHANGED <<merchants, engine, started, past, platform, wh, aside>>

\* ShopifyService.fetchAllProducts: one iteration of the page loop, or the
\* request throws once its retries are exhausted
FS_FetchPage(p) ==
    /\ p.op = "fs" /\ p.pc = "fetch"
    /\ \/ \E nodes \in Pages(p), hasNextPage \in BOOLEAN :
            /\ hasNextPage =>
                /\ nodes # <<>>
                /\ \E n \in Unread(p) : n.id # nodes[1].id
            /\ Resume(p, [p EXCEPT !.fetched = p.fetched \o nodes,
                                   !.pc = IF hasNextPage THEN "fetch" ELSE "delete"])
       \/ Resume(p, Throw(p, "fetch"))
    /\ UNCHANGED <<merchants, mirror, engine, started, past, platform, wh, aside>>

\* shopifyProducts.map(sp => ({ merchantId, ...transformProduct(sp) }))
ProductsToSave(p) == Map(p.fetched, LAMBDA sp : ProductDoc(p.shop, sp))

\* variant: the delete-all step is left out
FS_DeleteSkipped(p) ==
    /\ p.op = "fs" /\ p.pc = "delete" /\ ~Urgent
    /\ Resume(p, [p EXCEPT !.pc = "insert"])
    /\ UNCHANGED <<merchants, mirror, engine, started, past, platform, wh, aside>>

\* await Product.deleteMany({ merchantId: merchant._id })
FS_Delete(p) ==
    /\ p.op = "fs" /\ p.pc = "delete" /\ ~Urgent
    /\ \/ /\ mirror' = DeleteMany(mirror, p.shop)
          /\ Resume(p, [p EXCEPT !.pc = "insert"])
       \/ /\ Resume(p, Throw(p, "deleteMany"))
          /\ UNCHANGED mirror
    /\ UNCHANGED <<merchants, engine, started, past, platform, wh, aside>>

\* variant: a rejected bulk insert is swallowed and the sync goes on
FS_InsertSwallow(p) ==
    LET r == InsertMany(mirror, ProductsToSave(p)) IN
    /\ p.op = "fs" /\ p.pc = "insert" /\ ~Urgent
    /\ mirror' = r.rows
    /\ Resume(p, [p EXCEPT !.pc = "push", !.list = ProductsToSave(p),
                           !.hit = IF r.err = "none" THEN "inserted" ELSE "none"])
    /\ UNCHANGED <<merchants, engine, started, past, platform, wh, aside>>

\* const savedProducts = await Product.insertMany(productsToSave)
FS_Insert(p) ==
    LET r == InsertMany(mirror, ProductsToSave(p)) IN
    /\ p.op = "fs" /\ p.pc = "insert" /\ ~Urgent
    /\ \/ /\ mirror' = r.rows
          /\ Resume(p, IF r.err = "none"
                       THEN [p EXCEPT !.pc = "push", !.list = ProductsToSave(p),
                                      !.hit = "inserted"]
                       ELSE Throw(p, r.err))
       \/ /\ Resume(p, Throw(p, "insertMany"))
          /\ UNCHANGED mirror
    /\ UNCHANGED <<merchants, engine, started, past, platform, wh, aside>>

\* await flaskService.registerMerchantProducts(shop, flaskProducts)
PushList(p) ==
    LET flaskProducts == Map(p.list, FlaskProduct) IN
    \/ /\ engine' = Register(engine, p.shop, flaskProducts)
       /\ Resume(p, [p EXCEPT !.pc = IF p.op = "fs" THEN "save" ELSE "done",
                              !.calls = Append(p.calls, RegisterCall(flaskProducts))])
    \/ /\ Resume(p, Throw(p, "register"))
       /\ UNCHANGED engine

\* (variant) a failed push takes the inserted rows out of the mirror again
FS_PushRollback(p) ==
    /\ p.op = "fs" /\ p.pc = "push" /\ ~Urgent
    /\ LET flaskProducts == Map(p.list, FlaskProduct) IN
       \/ /\ engine' = Register(engine, p.shop, flaskProducts)
          /\ Resume(p, [p EXCEPT !.pc = "save",
                                 !.calls = Append(p.calls, RegisterCall(flaskProducts))])
          /\ UNCHANGED mirror
       \/ /\ Resume(p, Throw(p, "register"))
          /\ mirror' = DeleteMany(mirror, p.shop)
          /\ UNCHANGED engine
    /\ UNCHANGED <<merchants, started, past, platform, wh, aside>>

FS_Push(p) ==
    /\ p.op = "fs" /\ p.pc = "push" /\ ~Urgent
    /\ PushList(p)
    /\ UNCHANGED <<merchants, mirror, started, past, platform, wh, aside>>

\* merchant.lastSync = new Date(); await merchant.save()
FS_Save(p) ==
    /\ p.op = "fs" /\ p.pc = "save" /\ ~Urgent
    /\ \/ /\ merchants' = [merchants EXCEPT ![p.shop].lastSync = @ + 1]
          /\ Resume(p, [p EXCEPT !.pc = "done"])
       \/ /\ Resume(p, Throw(p, "save"))
          /\ UNCHANGED merchants
    /\ UNCHANGED <<mirror, engine, started, past, platform, wh, aside>>

----------------------------------------------------------------------------
(* SyncService.syncSingleProduct *)

\* await Product.findOneAndUpdate({merchantId, shopifyProductId}, productData,
\*                                {upsert: true, new: true})
SSP_Upsert(p) ==
    LET productData == ProductDoc(p.shop, p.arg[1]) IN
    /\ p.op = "ssp" /\ p.pc = "upsert" /\ ~Urgent
    /\ \/ /\ mirror' = FindOneAndUpdate(mirror, productData)
          /\ Resume(p, [p EXCEPT !.pc = "read",
                          !.hit = IF HasKey(mirror, p.shop, productData.shopifyProductId)
                                  THEN "updated" ELSE "inserted"])
       \/ /\ Resume(p, Throw(p, "findOneAndUpdate"))
          /\ UNCHANGED mirror
    /\ UNCHANGED <<merchants, engine, started, past, platform, wh, aside>>

\* const allProducts = await Product.find({ merchantId: merchant._id })
ReadAll(p) ==
    /\ \/ Resume(p, [p EXCEPT !.pc = "push", !.list = FindByMerchant(mirror, p.shop)])
       \/ Resume(p, Throw(p, "find"))
    /\ UNCHANGED <<merchants, mirror, engine, started, past, platform, wh, aside>>

SSP_Read(p) ==
    /\ p.op = "ssp" /\ p.pc = "read" /\ ~Urgent
    /\ ReadAll(p)

SSP_Push(p) ==
    /\ p.op = "ssp" /\ p.pc = "push" /\ ~Urgent
    /\ PushList(p)
    /\ UNCHANGED <<merchants, mirror, started, past, platform, wh, aside>>

----------------------------------------------------------------------------
(* SyncService.deleteProduct *)

\* await Product.deleteOne({merchantId, shopifyProductId: normalizedProductId})
DEL_Delete(p) ==
    LET normalizedProductId == normalizeProductId(p.arg[1].id) IN
    /\ p.op = "del" /\ p.pc = "delete" /\ ~Urgent
    /\ \/ /\ mirror' = DeleteOne(mirror, p.shop, normalizedProductId)
          /\ Resume(p, [p EXCEPT !.pc = "read",
                          !.hit = IF HasKey(mirror, p.shop, normalizedProductId)
                                  THEN "deleted" ELSE "none"])
       \/ /\ Resume(p, Throw(p, "deleteOne"))
          /\ UNCHANGED mirror
    /\ UNCHANGED <<merchants, engine, started, past, platform, wh, aside>>

\* const remainingProducts = await Product.find({ merchantId: merchant._id })
DEL_Read(p) ==
    /\ p.op = "del" /\ p.pc = "read" /\ ~Urgent
    /\ ReadAll(p)

\* variant: the remaining list is registered also when it is empty
DEL_PushAlwaysRegister(p) ==
    /\ p.op = "del" /\ p.pc = "push" /\ ~Urgent
    /\ PushList(p)
    /\ UNCHANGED <<merchants, mirror, started, past, platform, wh, aside>>

\* if (flaskProducts.length === 0) clearMerchant(shop) else register(...)
DEL_Push(p) ==
    /\ p.op = "del" /\ p.pc = "push" /\ ~Urgent
    /\ IF Len(p.list) = 0
       THEN \/ /\ engine' = Clear(engine, p.shop)
               /\ Resume(p, [p EXCEPT !.pc = "done", !.calls = Append(p.calls, ClearCall)])
            \/ /\ Resume(p, Throw(p, "clear"))
               /\ UNCHANGED engine
       ELSE PushList(p)
    /\ UNCHANGED <<merchants, mirror, started, past, platform, wh, aside>>

----------------------------------------------------------------------------
(* POST /api/sync without force: push the rows already in the mirror *)

\* const products = await Product.find(...); if (!products.length) return
MAN_Read(p) ==
    LET products == FindByMerchant(mirror, p.shop) IN
    /\ p.op = "man" /\ p.pc = "read" /\ ~Urgent
    /\ \/ Resume(p, [p EXCEPT !.pc = IF Len(products) = 0 THEN "done" ELSE "push",
                              !.list = products])
       \/ Resume(p, Throw(p, "find"))
    /\ UNCHANGED <<merchants, mirror, engine, started, past, platform, wh, aside>>

MAN_Push(p) ==
    /\ p.op = "man" /\ p.pc = "push" /\ ~Urgent
    /\ PushList(p)
    /\ UNCHANGED <<merchants, mirror, started, past, platform, wh, aside>>

----------------------------------------------------------------------------
(* Triggers *)

\* GET /auth/callback after the token exchange: save the merchant, then call
\* fullSync without awaiting it (the subscription reconciliation that runs in
\* between touches only the platform's subscriptions)
Install(shop, serial) ==
    /\ CanStart(serial)
    /\ merchants' = [merchants EXCEPT ![shop] =
            IF merchants[shop].exists
            THEN [merchants[shop] EXCEPT !.isActive = TRUE]
            ELSE NewMerchant]
    /\ Spawn([Begin("fs", shop, <<>>, "fetch") EXCEPT !.merchant = <<[isActive |-> TRUE]>>])
    /\ UNCHANGED <<mirror, engine, past, platform, wh, aside>>

\* syncAllMerchants: this.fullSync(merchant.shop, ...) for an active merchant
CronFullSync(shop, serial) ==
    /\ CanStart(serial)
    /\ merchants[shop].exists /\ merchants[shop].isActive
    /\ Launch("fs", shop, <<>>, "fetch")
    /\ UNCHANGED <<merchants, mirror, engine, past, platform, wh, aside>>

\* POST /api/sync: 404 unless the merchant is active; force runs fullSync
ManualSync(shop, force, serial) ==
    /\ CanStart(serial)
    /\ IF merchants[shop].exists /\ merchants[shop].isActive
       THEN Launch(IF force THEN "fs" ELSE "man", shop, <<>>,
                   IF force THEN "fetch" ELSE "read")
       ELSE Spawn(Throw(Begin("man", shop, <<>>, "read"), "notfound"))
    /\ UNCHANGED <<merchants, mirror, engine, past, platform, wh, aside>>

\* POST /webhooks/products/create and /webhooks/products/update
ProductWebhook(shop, product, serial) ==
    /\ CanStart(serial)
    /\ Launch("ssp", shop, <<product>>, "upsert")
    /\ UNCHANGED <<merchants, mirror, engine, past, platform, wh, aside>>

\* POST /webhooks/products/delete: deleteProduct(shop, payload.id)
DeleteWebhook(shop, id, serial) ==
    /\ CanStart(serial)
    /\ Launch("del", shop, <<RawProduct(id, 0, "none")>>, "delete")
    /\ UNCHANGED <<merchants, mirror, engine, past, platform, wh, aside>>

\* the response of a webhook route: 200 after the awaited call, 500 from catch
WebhookStatus(p) == IF p.pc = "done" THEN 200 ELSE 500

\* what has returned once p has: an operation has thrown, or else a manual
\* push has run, or else only syncs that ended without error
Outcome(p) ==
    IF past = "thrown" \/ p.pc = "failed" THEN "thrown"
    ELSE IF past = "manual" \/ p.op = "man" THEN "manual"
    ELSE "clean"

\* the caller has its answer
Return(p) ==
    /\ Finished(p)
    /\ procs' = procs (-) SetToBag({p})
    /\ past' = Outcome(p)
    /\ UNCHANGED <<merchants, mirror, engine, started, platform, wh, aside>>

\* the same trigger fires again with the same input right after the first run
\* has answered (a platform-side webhook retry, a second sync request)
Repeat(p) ==
    /\ Finished(p) /\ p.attempt = 1 /\ p.op # "man" /\ p.err # "notfound"
    /\ started < MaxOps
    /\ Resume(p, [Begin(p.op, p.shop, p.arg,
                        IF p.op = "fs" THEN "fetch"
                        ELSE IF p.op = "ssp" THEN "upsert" ELSE "delete")
                    EXCEPT !.attempt = 2,
                           !.snap = <<[ok |-> p.pc = "done",
                                       mirror |-> mirror, engine |-> engine,
                                       fetched |-> p.fetched, calls |-> p.calls]>>])
    /\ started' = started + 1
    /\ past' = Outcome(p)
    /\ UNCHANGED <<merchants, mirror, engine, platform, wh, aside>>

----------------------------------------------------------------------------
(* Webhook routes: verifyWebhook and the four handlers                     *)
(* A MAC is the pair of the key and the raw body it was computed from.     *)

SHOPIFY_API_SECRET == "secret"

\* crypto.createHmac('sha256', key).update(rawBody).digest('base64')
Hmac(key, rawBody) == <<key, rawBody>>

\* raw request bodies: a JSON document, no body at all, or bytes that do not
\* parse as JSON
JsonBody(payload) == [kind |-> "json", payload |-> payload]
EmptyBody == [kind |-> "empty", payload |-> RawProduct(<<>>, 0, "none")]
GarbageBody == [kind |-> "garbage", payload |-> RawProduct(<<>>, 0, "none")]

HookBodies(shop) ==
    IF shop = "s1"
    THEN {JsonBody(RawProduct(BareId(1), 1, "array")),
          JsonBody(RawProduct(Gid(2), 0, "array")), EmptyBody, GarbageBody}
    ELSE {JsonBody(RawProduct(BareId(1), 1, "array"))}

\* values of the x-shopify-hmac-sha256 header: the MAC of the body, the MAC of
\* another body, a MAC under another key, or no header
HookSignatures(body) ==
    {Hmac(SHOPIFY_API_SECRET, body), Hmac(SHOPIFY_API_SECRET, JsonBody(RawProduct(BareId(3), 1, "array"))),
     Hmac("guess", body), <<>>}

HookRoutes == {"products/create", "products/update", "products/delete", "app/uninstalled"}

Request(route, shop, body, hmac) ==
    [route |-> route, shop |-> shop, body |-> body, hmac |-> hmac]

\* left.length === right.length && crypto.timingSafeEqual(left, right)
timingSafeCompare(a, b) == a = b

\* (variant) the routes are mounted without verifyWebhook
verifyWebhookSkipped(request) == IF request.body.kind = "garbage" THEN 400 ELSE 0

\* verifyWebhook: 401 on a signature mismatch, 400 on a body that does not
\* parse, otherwise next() (0: no answer yet)
verifyWebhook(request) ==
    IF ~timingSafeCompare(Hmac(SHOPIFY_API_SECRET, request.body), request.hmac) THEN 401
    ELSE IF request.body.kind = "garbage" THEN 400
    ELSE 0

\* the handler's call of the service, carrying the request
HandlerCall(request) ==
    LET op == IF request.route = "products/delete" THEN "del"
              ELSE IF request.route = "app/uninstalled" THEN "unin" ELSE "ssp"
        pc == IF op = "del" THEN "delete" ELSE IF op = "unin" THEN "deactivate" ELSE "upsert"
        arg == IF op = "del" THEN <<RawProduct(request.body.payload.id, 0, "none")>>
               ELSE IF op = "unin" THEN <<>> ELSE <<request.body.payload>>
        call == [Begin(op, request.shop, arg, pc) EXCEPT
                    !.req = <<request>>,
                    !.merchant = IF op = "unin" THEN <<>> ELSE @]
    IN  IF op # "unin" /\ ~merchants[request.shop].exists
        THEN Throw(call, "notfound") ELSE call

\* a request arrives at one of the four routes
Deliver(request) ==
    /\ started < MaxOps /\ ~Urgent
    /\ LET status == verifyWebhook(request)
       IN  IF status # 0
           THEN Spawn([Begin("none", request.shop, <<>>, "answered")
                        EXCEPT !.req = <<request>>, !.res = status,
                               !.log = <<IF status = 401 THEN "Invalid webhook HMAC"
                                         ELSE "Invalid webhook JSON payload">>])
           ELSE Spawn(HandlerCall(request))
    /\ UNCHANGED <<merchants, mirror, engine, past, platform, wh, aside>>

\* await Merchant.findOneAndUpdate({ shop }, { isActive: false })
UNIN_Deactivate(p) ==
    /\ p.op = "unin" /\ p.pc = "deactivate" /\ ~Urgent
    /\ \/ /\ merchants' = [merchants EXCEPT ![p.shop] =
                    IF @.exists THEN [@ EXCEPT !.isActive = FALSE] ELSE @]
          /\ Resume(p, [p EXCEPT !.pc = "clear",
                                 !.hit = IF merchants[p.shop].exists THEN "updated" ELSE "none"])
       \/ /\ Resume(p, Throw(p, "findOneAndUpdate"))
          /\ UNCHANGED merchants
    /\ UNCHANGED <<mirror, engine, started, past, platform, wh, aside>>

\* await flaskService.clearMerchant(shop)
UNIN_Clear(p) ==
    /\ p.op = "unin" /\ p.pc = "clear" /\ ~Urgent
    /\ \/ /\ engine' = Clear(engine, p.shop)
          /\ Resume(p, [p EXCEPT !.pc = "done", !.calls = Append(@, ClearCall)])
       \/ /\ Resume(p, Throw(p, "clear"))
          /\ UNCHANGED engine
    /\ UNCHANGED <<merchants, mirror, started, past, platform, wh, aside>>

\* (variant) the handler acknowledges whatever the awaited call did
HookRespondAlwaysOk(p) ==
    /\ Finished(p) /\ p.req # <<>>
    /\ Resume(p, [p EXCEPT !.pc = "answered", !.res = 200])
    /\ UNCHANGED <<merchants, mirror, engine, started, past, platform, wh, aside>>

\* res.status(200).send('OK') after the awaited call, or from the catch:
\* console.error('Webhook error ...'); res.status(500).send('Error')
HookRespond(p) ==
    /\ Finished(p) /\ p.req # <<>>
    /\ Resume(p, [p EXCEPT !.pc = "answered",
                           !.res = WebhookStatus(p),
                           !.log = IF p.pc = "failed" THEN Append(@, "Webhook error") ELSE @])
    /\ UNCHANGED <<merchants, mirror, engine, started, past, platform, wh, aside>>

HookNext ==
    \/ \E route \in HookRoutes, shop \in Shops :
         \E body \in HookBodies(shop) : \E hmac \in HookSignatures(body) :
            Deliver(Request(route, shop, body, hmac))
    \/ \E p \in Running : SSP_Upsert(p)
    \/ \E p \in Running : SSP_Read(p)
    \/ \E p \in Running : SSP_Push(p)
    \/ \E p \in Running : DEL_Delete(p)
    \/ \E p \in Running : DEL_Read(p)
    \/ \E p \in Running : DEL_Push(p)
    \/ \E p \in Running : UNIN_Deactivate(p)
    \/ \E p \in Running : UNIN_Clear(p)
    \/ \E p \in Running : HookRespond(p)

----------------------------------------------------------------------------
(* Specifications of the synchronisation core *)

\* Shop s1 is installed and holds one product that a webhook brought in and
\* that is registered with the engine; shop s2 is not installed yet.
InitialRow == ProductDoc("s1", RawProduct(BareId(1), 2, "array"))

InitialMerchants ==
    [s \in Shops |->
        IF s = "s1" THEN NewMerchant
        ELSE NoMerchant]

InitialEngine ==
    [s \in Shops |-> IF s = "s1" THEN <<FlaskProduct(InitialRow)>> ELSE <<>>]

\* no registerWebhooks call runs
SyncInit ==
    /\ merchants = InitialMerchants
    /\ mirror = <<InitialRow>>
    /\ engine = InitialEngine
    /\ procs = EmptyBag
    /\ started = 0
    /\ past = "clean"
    /\ platform = <<>>
    /\ wh = <<>>
    /\ transformed = <<>>
    /\ oauthStates = <<>>
    /\ now = 0
    /\ auth = <<>>
    /\ settings = <<>>
    /\ reco = <<>>
    /\ batch = <<>>
    /\ gql = <<>>
    /\ boot = <<>>

Steps ==
    \/ \E p \in Running : FS_FetchPage(p)
    \/ \E p \in Running : FS_Delete(p)
    \/ \E p \in Running : FS_Insert(p)
    \/ \E p \in Running : FS_Push(p)
    \/ \E p \in Running : FS_Save(p)
    \/ \E p \in Running : SSP_Upsert(p)
    \/ \E p \in Running : SSP_Read(p)
    \/ \E p \in Running : SSP_Push(p)
    \/ \E p \in Running : DEL_Delete(p)
    \/ \E p \in Running : DEL_Read(p)
    \/ \E p \in Running : DEL_Push(p)
    \/ \E p \in Running : MAN_Read(p)
    \/ \E p \in Running : MAN_Push(p)
    \/ \E p \in Running : Return(p)
    \/ \E p \in Running : Repeat(p)

Triggers(serial) ==
    \/ \E shop \in Shops : Install(shop, serial)
    \/ \E shop \in Shops : CronFullSync(shop, serial)
    \/ \E shop \in Shops, force \in BOOLEAN : ManualSync(shop, force, serial)
    \/ \E shop \in Shops : \E product \in WebhookPayloads(shop) :
            ProductWebhook(shop, product, serial)
    \/ \E shop \in Shops : \E id \in DeleteIds(shop) : DeleteWebhook(shop, id, serial)

\* operations overlap: any started operation may take the next step
SyncNext == Steps \/ Triggers(FALSE)

\* operations run one after another: a trigger fires only when nothing runs
SerialNext == Steps \/ Triggers(TRUE)

Spec == SyncInit /\ [][SyncNext]_vars

SpecSeq == SyncInit /\ [][SerialNext]_vars

\* deliveries to the webhook routes, overlapping
SpecHook == SyncInit /\ [][HookNext]_vars

----------------------------------------------------------------------------
(* The product transform applied to one payload *)

MaxTags == 3      \* characters of a tags string, elements of a tags list

\* tags as the platform's REST payload gives them (one comma-delimited
\* string) and as its GraphQL API gives them (a list)
TagChars == {"a", "b", Space, Comma}
TagElements == {Str(<<"x">>), Str(<<Space, "y", Space>>), Str(<<>>), Null, Num(7)}

ExampleString == Str(<<"a", Comma, Space, "b", Space, Comma, "b", Comma>>)
ExampleList == List(<<Str(<<"x">>), Str(<<"x">>), Str(<<Space, "y", Space>>)>>)

TagInputs ==
    {Undefined, Null, Num(0), Num(5), Obj, ExampleString, ExampleList}
    \cup {Str(chars) : chars \in UNION {[1..n -> TagChars] : n \in 0..MaxTags}}
    \cup {List(items) : items \in UNION {[1..n -> TagElements] : n \in 0..MaxTags}}

notTransformed ==
    <<syncVars, platform, wh, oauthStates, now, auth, settings, reco, batch,
     gql, boot>>

\* transformProduct(shopifyProduct) is applied to a payload with these tags
Transform(rawTags) ==
    /\ transformed = <<>>
    /\ LET shopifyProduct == [RawProduct(BareId(1), 1, "array") EXCEPT !.tags = rawTags]
       IN  transformed' = <<[shopifyProduct |-> shopifyProduct,
                             result |-> transformProduct(shopifyProduct)]>>
    /\ UNCHANGED notTransformed

TransformInit ==
    /\ merchants = InitialMerchants
    /\ mirror = <<InitialRow>>
    /\ engine = InitialEngine
    /\ procs = EmptyBag
    /\ started = 0
    /\ past = "clean"
    /\ platform = <<>>
    /\ wh = <<>>
    /\ transformed = <<>>
    /\ oauthStates = <<>>
    /\ now = 0
    /\ auth = <<>>
    /\ settings = <<>>
    /\ reco = <<>>
    /\ batch = <<>>
    /\ gql = <<>>
    /\ boot = <<>>

TransformNext == \E rawTags \in TagInputs : Transform(rawTags)

SpecTransform == TransformInit /\ [][TransformNext]_vars

----------------------------------------------------------------------------
(* OAuth routes: the state store, GET /auth and GET /auth/callback         *)

MaxAuth == 3      \* requests to the OAuth routes in one behaviour
MaxLate == 1      \* milliseconds the clock runs past one time-to-live

OAUTH_STATE_TTL_MS == 10 * 60 * 1000

NotAShop == "evil.example"

\* /^[a-z0-9][a-z0-9-]*\.myshopify\.com$/i.test(shop)
isValidShopDomain(shop) == shop \in Shops

\* the state tokens minted so far are 1 .. Minted: crypto.randomBytes(16)
\* gives a token that was never given before
Minted == Cardinality({k \in 1..Len(auth) : auth[k].kind = "mint"})

\* oauthStateStore.set(state, { shop, expiresAt: Date.now() + OAUTH_STATE_TTL_MS })
mintOAuthState(store, state, shop) ==
    [t \in DOMAIN store \cup {state} |->
        IF t = state THEN [shop |-> shop, expiresAt |-> now + OAUTH_STATE_TTL_MS]
        ELSE store[t]]

\* oauthStateStore.delete(state)
Delete(store, state) == [t \in DOMAIN store \ {state} |-> store[t]]

\* (variant) the entry is left in the store
consumeOAuthStateKept(store, state, shop) ==
    IF state \notin DOMAIN store THEN [ok |-> FALSE, store |-> store]
    ELSE [ok |-> ~(store[state].expiresAt < now) /\ store[state].shop = shop,
          store |-> store]

\* (variant) the expiry time is not compared with the clock
consumeOAuthStateUnexpiring(store, state, shop) ==
    IF state \notin DOMAIN store THEN [ok |-> FALSE, store |-> store]
    ELSE [ok |-> store[state].shop = shop, store |-> Delete(store, state)]

\* consumeOAuthState(state, shop): its result and the store it leaves
consumeOAuthState(store, state, shop) ==
    IF state \notin DOMAIN store THEN [ok |-> FALSE, store |-> store]
    ELSE [ok |-> ~(store[state].expiresAt < now) /\ store[state].shop = shop,
          store |-> Delete(store, state)]

\* a request the routes have taken in: a mint (GET /auth) or a callback
\* (GET /auth/callback) with what it presented, whether it consumed the state,
\* where the handler stands, what it has done and how it was answered
AuthEvent(kind, query, consumed, pc, status) ==
    [kind |-> kind, query |-> query, at |-> now, consumed |-> consumed,
     pc |-> pc, status |-> status, did |-> {}, found |-> FALSE]

\* req.query of a callback: state 0 and code "" stand for a missing parameter
Query(shop, code, state, hmacOk) ==
    [shop |-> shop, code |-> code, state |-> state, hmacOk |-> hmacOk]

CallbackQueries ==
    {Query(NotAShop, "code", 1, TRUE), Query("s1", "", 1, TRUE), Query("s1", "code", 0, TRUE)}
    \cup {Query(shop, "code", state, hmacOk) :
            shop \in Shops, state \in 1..(Minted + 1), hmacOk \in BOOLEAN}

notAuth == <<mirror, engine, past, platform, wh, transformed, settings, reco, batch,
     gql, boot>>

\* GET /auth?shop=...: mint a state and redirect to the platform
AuthStart(shop) ==
    /\ Len(auth) < MaxAuth
    /\ IF ~isValidShopDomain(shop)
       THEN /\ auth' = Append(auth, AuthEvent("auth", Query(shop, "", 0, FALSE), FALSE, "answered", 400))
            /\ UNCHANGED oauthStates
       ELSE /\ oauthStates' = mintOAuthState(oauthStates, Minted + 1, shop)
            /\ auth' = Append(auth, AuthEvent("mint", Query(shop, "", Minted + 1, FALSE),
                                              FALSE, "answered", 302))
    /\ UNCHANGED <<merchants, procs, started, now, notAuth>>

\* GET /auth/callback up to its first await: the parameter check,
\* consumeOAuthState and verifyOAuthHmac
Callback(query) ==
    /\ Len(auth) < MaxAuth
    /\ IF ~isValidShopDomain(query.shop) \/ query.code = "" \/ query.state = 0
       THEN /\ auth' = Append(auth, AuthEvent("callback", query, FALSE, "answered", 400))
            /\ UNCHANGED oauthStates
       ELSE LET consumed == consumeOAuthState(oauthStates, query.state, query.shop)
            IN  /\ oauthStates' = consumed.store
                /\ auth' = Append(auth,
                        IF ~consumed.ok
                        THEN AuthEvent("callback", query, FALSE, "answered", 400)
                        ELSE IF ~query.hmacOk
                        THEN AuthEvent("callback", query, TRUE, "answered", 401)
                        ELSE AuthEvent("callback", query, TRUE, "exchange", 0))
    /\ UNCHANGED <<merchants, procs, started, now, notAuth>>

Pending(k, pc) == k \in 1..Len(auth) /\ auth[k].kind = "callback" /\ auth[k].pc = pc

\* the catch of the callback route: res.status(500)
CallbackFailed(log, k) == [log EXCEPT ![k].pc = "answered", ![k].status = 500]

\* await axios.post(`https://${shop}/admin/oauth/access_token`, ...)
CB_Exchange(k) ==
    /\ Pending(k, "exchange")
    /\ \/ auth' = [auth EXCEPT ![k].pc = "find", ![k].did = @ \cup {"exchange"}]
       \/ auth' = CallbackFailed([auth EXCEPT ![k].did = @ \cup {"exchange"}], k)
    /\ UNCHANGED <<merchants, procs, started, oauthStates, now, notAuth>>

\* let merchant = await Merchant.findOne({ shop })
CB_Find(k) ==
    /\ Pending(k, "find")
    /\ \/ auth' = [auth EXCEPT ![k].pc = "save",
                               ![k].found = merchants[auth[k].query.shop].exists]
       \/ auth' = CallbackFailed(auth, k)
    /\ UNCHANGED <<merchants, procs, started, oauthStates, now, notAuth>>

\* (variant) the shop field carries no unique index
UniqueShopOff(rows, shop) == TRUE

\* merchantSchema: shop: { unique: true }: a new document is admitted when no
\* document carries the shop
UniqueShop(rows, shop) == ~rows[shop].exists

\* await merchant.save(): the found document with isActive = true, or a new
\* one, which the unique index on shop refuses when one exists by now
CB_Save(k) ==
    /\ Pending(k, "save")
    /\ LET shop == auth[k].query.shop IN
       \/ /\ auth[k].found \/ UniqueShop(merchants, shop)
          /\ merchants' = [merchants EXCEPT ![shop] =
                IF auth[k].found /\ @.exists THEN [@ EXCEPT !.isActive = TRUE]
                ELSE IF @.exists THEN [@ EXCEPT !.copies = @ + 1]
                ELSE NewMerchant]
          /\ auth' = [auth EXCEPT ![k].pc = "register", ![k].did = @ \cup {"save"}]
       \/ /\ auth' = CallbackFailed(auth, k)
          /\ UNCHANGED merchants
    /\ UNCHANGED <<procs, started, oauthStates, now, notAuth>>

\* try { await WebhookService.registerWebhooks(shop, access_token) } catch {}
\* then SyncService.fullSync(shop, access_token) without await, and the
\* redirect to the admin
CB_RegisterAndSync(k) ==
    /\ Pending(k, "register")
    /\ \E hooks \in {"registerWebhooks", "registerWebhooks threw"} :
          auth' = [auth EXCEPT ![k].pc = "answered", ![k].status = 302,
                               ![k].did = @ \cup {hooks, "fullSync"}]
    /\ Spawn(Begin("fs", auth[k].query.shop, <<>>, "fetch"))
    /\ UNCHANGED <<merchants, oauthStates, now, notAuth>>

\* time passes: by one time-to-live, or by a millisecond at a time up to
\* MaxLate milliseconds
Advance(ms) ==
    /\ now + ms <= OAUTH_STATE_TTL_MS + MaxLate
    /\ ms = 1 => now % OAUTH_STATE_TTL_MS < MaxLate
    /\ now' = now + ms
    /\ UNCHANGED <<merchants, procs, started, oauthStates, auth, notAuth>>

AuthInit ==
    /\ merchants = InitialMerchants
    /\ mirror = <<InitialRow>>
    /\ engine = InitialEngine
    /\ procs = EmptyBag
    /\ started = 0
    /\ past = "clean"
    /\ platform = <<>>
    /\ wh = <<>>
    /\ transformed = <<>>
    /\ oauthStates = <<>>
    /\ now = 0
    /\ auth = <<>>
    /\ settings = <<>>
    /\ reco = <<>>
    /\ batch = <<>>
    /\ gql = <<>>
    /\ boot = <<>>

AuthNext ==
    \/ \E shop \in Shops \cup {NotAShop} : AuthStart(shop)
    \/ \E query \in CallbackQueries : Callback(query)
    \/ \E k \in 1..Len(auth) : CB_Exchange(k)
    \/ \E k \in 1..Len(auth) : CB_Find(k)
    \/ \E k \in 1..Len(auth) : CB_Save(k)
    \/ \E k \in 1..Len(auth) : CB_RegisterAndSync(k)
    \/ \E ms \in {1, OAUTH_STATE_TTL_MS} : Advance(ms)

SpecAuth == AuthInit /\ [][AuthNext]_vars

----------------------------------------------------------------------------
(* Admin settings API: MerchantSettings, getSettings and saveSettings      *)
(* A document and a request body are functions from field names to        *)
(* values; a field that is not in the domain is undefined. Fractions are   *)
(* written in hundredths (0.30 is 30). The display and design fields are   *)
(* stored as sent and are read by nothing here: they are left out.         *)

AI_AUTOPILOT_DEFAULTS ==
    [filters |->
        [priceProximity |-> [enabled |-> TRUE, range |-> 30],
         tagBoost |-> [enabled |-> TRUE, weight |-> 15],
         locationFilter |-> [enabled |-> TRUE],
         ethicalFilter |-> [enabled |-> FALSE, vegan |-> FALSE, sustainable |-> FALSE],
         excludeViewed |-> FALSE,
         excludePurchased |-> TRUE,
         sameCategoryOnly |-> TRUE],
     weights |->
        [purchaseHistory |-> 70, cartItems |-> 50,
         currentProduct |-> 30, browsingHistory |-> 10]]

\* the default of every path of the schema
merchantSettingsSchema ==
    [mode |-> "ai_autopilot",
     filters |->
        [priceProximity |-> [enabled |-> TRUE, range |-> 30],
         tagBoost |-> [enabled |-> TRUE, weight |-> 15],
         locationFilter |-> [enabled |-> TRUE],
         ethicalFilter |-> [enabled |-> FALSE, vegan |-> FALSE, sustainable |-> FALSE],
         excludeViewed |-> FALSE,
         excludePurchased |-> TRUE,
         sameCategoryOnly |-> TRUE],
     weights |->
        [purchaseHistory |-> 70, cartItems |-> 50,
         currentProduct |-> 30, browsingHistory |-> 10]]

Empty == [field \in {} |-> FALSE]

\* the fields of source laid over those of target ($set, Object.assign)
Assign(target, source) ==
    [field \in DOMAIN target \cup DOMAIN source |->
        IF field \in DOMAIN source THEN source[field] ELSE target[field]]

\* what a merchant sets by hand
ManualFilters ==
    [AI_AUTOPILOT_DEFAULTS.filters EXCEPT
        !.priceProximity = [enabled |-> TRUE, range |-> 50],
        !.excludeViewed = TRUE,
        !.sameCategoryOnly = FALSE]
ManualWeights ==
    [purchaseHistory |-> 25, cartItems |-> 25,
     currentProduct |-> 25, browsingHistory |-> 25]

\* req.body of POST /api/settings: any subset of mode, filters and weights
SettingsPayloads ==
    {Assign(Assign(m, f), w) :
        m \in {Empty, [mode |-> "ai_autopilot"], [mode |-> "manual"]},
        f \in {Empty, [filters |-> AI_AUTOPILOT_DEFAULTS.filters],
               [filters |-> ManualFilters]},
        w \in {Empty, [weights |-> AI_AUTOPILOT_DEFAULTS.weights],
               [weights |-> ManualWeights]}}

\* the shop a request resolves to: an active merchant, an unknown one, none
NoShop == ""
SettingsShops == Shops \cup {NoShop}

\* MerchantSettings.findOne({ shop })
HasSettings(docs, shop) == \E k \in 1..Len(docs) : docs[k].shop = shop
FindSettings(docs, shop) ==
    docs[CHOOSE k \in 1..Len(docs) :
            /\ docs[k].shop = shop
            /\ \A j \in 1..(k - 1) : docs[j].shop # shop]

\* ensureMerchant(shop) returns a merchant
ensureMerchant(shop) ==
    /\ shop \in Shops
    /\ merchants[shop].exists
    /\ merchants[shop].isActive

\* MerchantSettings.create({ merchantId, shop, mode: 'ai_autopilot' })
CreateSettings(shop) ==
    Assign(merchantSettingsSchema, [shop |-> shop, mode |-> "ai_autopilot"])

updateDataAsSent(shop, payload) == Assign([shop |-> shop], payload)

\* the update saveSettings builds from the body
updateData(shop, payload) ==
    IF "mode" \in DOMAIN payload /\ payload.mode = "ai_autopilot"
    THEN Assign(Assign([shop |-> shop], payload), AI_AUTOPILOT_DEFAULTS)
    ELSE Assign([shop |-> shop], payload)

\* MerchantSettings.findOneAndUpdate({ shop }, update, { upsert: true, new: true }):
\* a document that is inserted takes the schema's defaults for the paths the
\* update leaves out when the driver sets defaults on insert
UpsertSettings(docs, shop, update, setDefaultsOnInsert) ==
    IF HasSettings(docs, shop)
    THEN [k \in 1..Len(docs) |->
            IF docs[k] = FindSettings(docs, shop)
            THEN Assign(docs[k], update) ELSE docs[k]]
    ELSE Append(docs, IF setDefaultsOnInsert
                      THEN Assign(merchantSettingsSchema, update)
                      ELSE update)

notSettings ==
    <<merchants, mirror, engine, past, platform, wh,
      transformed, oauthStates, now, auth, reco, batch,
     gql, boot>>

\* the request is answered with this status
Answer(p, status) == [p EXCEPT !.pc = "answered", !.res = status]

\* GET /api/settings up to the document's creation
GetSettings(shop) ==
    /\ started < MaxOps
    /\ LET p == Begin("getSettings", shop, Empty, "find")
       IN  Spawn(IF shop = NoShop THEN Answer(p, 400)
                 ELSE IF ~ensureMerchant(shop) THEN Answer(Throw(p, "notfound"), 500)
                 ELSE IF HasSettings(settings, shop) THEN Answer(p, 200)
                 ELSE [p EXCEPT !.pc = "create"])
    /\ UNCHANGED <<settings, notSettings>>

\* getSettings: await MerchantSettings.create(...); the unique index on shop
\* refuses a second document
GS_Create(p) ==
    /\ p.pc = "create"
    /\ IF HasSettings(settings, p.shop)
       THEN /\ Resume(p, Answer(Throw(p, "duplicate"), 500))
            /\ UNCHANGED settings
       ELSE /\ settings' = Append(settings, CreateSettings(p.shop))
            /\ Resume(p, Answer(p, 200))
    /\ UNCHANGED <<started, notSettings>>

\* POST /api/settings
SaveSettings(shop, payload, setDefaultsOnInsert) ==
    /\ started < MaxOps
    /\ LET p == Begin("saveSettings", shop, payload, "save")
       IN  IF shop = NoShop
           THEN Spawn(Answer(p, 400)) /\ UNCHANGED settings
           ELSE IF ~ensureMerchant(shop)
           THEN Spawn(Answer(Throw(p, "notfound"), 500)) /\ UNCHANGED settings
           ELSE /\ settings' = UpsertSettings(settings, shop,
                                    updateData(shop, payload), setDefaultsOnInsert)
                /\ Spawn(Answer(p, 200))
    /\ UNCHANGED notSettings

SettingsInit ==
    /\ merchants = InitialMerchants
    /\ mirror = <<InitialRow>>
    /\ engine = InitialEngine
    /\ procs = EmptyBag
    /\ started = 0
    /\ past = "clean"
    /\ platform = <<>>
    /\ wh = <<>>
    /\ transformed = <<>>
    /\ oauthStates = <<>>
    /\ now = 0
    /\ auth = <<>>
    /\ settings = <<>>
    /\ reco = <<>>
    /\ batch = <<>>
    /\ gql = <<>>
    /\ boot = <<>>

SettingsNext ==
    \/ \E shop \in SettingsShops : GetSettings(shop)
    \/ \E p \in Running : GS_Create(p)
    \/ \E shop \in SettingsShops, payload \in SettingsPayloads,
          setDefaultsOnInsert \in BOOLEAN :
            SaveSettings(shop, payload, setDefaultsOnInsert)

SpecSettings == SettingsInit /\ [][SettingsNext]_vars

----------------------------------------------------------------------------
(* The recommendation routes (GET /api/recommend, GET /api/popular) and    *)
(* the storefront widget that calls them.  Requests are those the app      *)
(* proxy signature check let through.  A query parameter that holds JSON   *)
(* is absent, the text of a value, or text that does not parse.            *)

MaxK == 10        \* the largest result count asked for

NoText == [kind |-> "absent", value |-> Undefined]
JsonText(value) == [kind |-> "json", value |-> value]
GarbageText == [kind |-> "garbage", value |-> Undefined]

\* function toGid(id)
toGid(id) ==
    IF Falsy(id) THEN id
    ELSE LET s == ToStr(id)
         IN  Str(IF Head(s) = GidPrefix THEN s ELSE <<GidPrefix>> \o s)

\* [...new Set(items)]: the first occurrence of every value, in order
RECURSIVE Unique(_)
Unique(items) ==
    IF items = <<>> THEN <<>>
    ELSE LET front == Unique(SubSeq(items, 1, Len(items) - 1))
             last == items[Len(items)]
         IN  IF last \in Range(front) THEN front ELSE Append(front, last)

\* items.slice(0, n)
Slice(items, n) == SubSeq(items, 1, IF n < Len(items) THEN n ELSE Len(items))

\* the ids of a JSON parameter: JSON.parse, Array.isArray, map(toGid); a
\* text that does not parse is logged and counts as no ids
IdsOfText(text) ==
    IF text.kind = "json" /\ text.value.type = "array"
    THEN Map(text.value.items, toGid)
    ELSE <<>>

\* parseInt(k, 10), k defaulting to fallback
ParseInt(k, fallback) ==
    IF k.type = "undefined" THEN fallback
    ELSE CHOOSE n \in 0..MaxK : ToString(n) = ToStr(k)[1]

\* req.query of a recommendation request
RecoQuery(shop, productId, history, cart, k) ==
    [shop |-> shop, productId |-> productId, history |-> history,
     cart |-> cart, k |-> k]

\* getRecommendationSettings(shop)
getRecommendationSettings(docs, shop) ==
    IF ~HasSettings(docs, shop)
    THEN [mode |-> "ai_autopilot", filters |-> AI_AUTOPILOT_DEFAULTS.filters,
          weights |-> AI_AUTOPILOT_DEFAULTS.weights]
    ELSE LET doc == FindSettings(docs, shop)
         IN  [mode |-> IF "mode" \in DOMAIN doc THEN doc.mode ELSE "ai_autopilot",
              filters |-> IF "filters" \in DOMAIN doc THEN doc.filters
                          ELSE AI_AUTOPILOT_DEFAULTS.filters,
              weights |-> IF "weights" \in DOMAIN doc THEN doc.weights
                          ELSE AI_AUTOPILOT_DEFAULTS.weights]

\* (variant) the most recently viewed product is the pivot of a request
\* without a current product
effectiveProductIdFromHistory(query) ==
    IF ~Falsy(query.productId) THEN toGid(query.productId)
    ELSE IF IdsOfText(query.history) # <<>> THEN IdsOfText(query.history)[1]
    ELSE IF IdsOfText(query.cart) # <<>> THEN IdsOfText(query.cart)[1]
    ELSE Null

\* the pivot: the current product, else the first cart item, else none
effectiveProductId(query) ==
    IF ~Falsy(query.productId) THEN toGid(query.productId)
    ELSE IF Slice(Unique(IdsOfText(query.cart)), 5) # <<>>
         THEN Slice(Unique(IdsOfText(query.cart)), 5)[1]
    ELSE Null

\* userHistory after the merge and the final cleanup (null when empty)
userHistory(query) ==
    LET viewed == Slice(Unique(IdsOfText(query.history)), 10)
        added_to_cart == Slice(Unique(IdsOfText(query.cart)), 5)
    IN  IF viewed = <<>> /\ added_to_cart = <<>> THEN <<>>
        ELSE <<[viewed |-> viewed, added_to_cart |-> added_to_cart,
                purchased |-> <<>>]>>

\* the argument of flaskService.getRecommendations
RecommendCall(docs, query) ==
    LET merchSettings == getRecommendationSettings(docs, query.shop) IN
    [api |-> "recommend",
     merchant_id |-> query.shop,
     current_product_id |-> effectiveProductId(query),
     user_history |-> userHistory(query),
     k |-> ParseInt(query.k, 10),
     exclude_current |-> ~Falsy(query.productId),
     exclude_viewed |-> merchSettings.filters.excludeViewed,
     exclude_purchased |-> merchSettings.filters.excludePurchased,
     merchant_settings |-> merchSettings]

\* the argument of flaskService.getPopular
PopularCall(query) ==
    [api |-> "popular", merchant_id |-> query.shop, k |-> ParseInt(query.k, 6)]

\* a handler of one request: its route, its query, the calls it has made to
\* the engine, and its response once it has answered
Handler(route, query) ==
    [route |-> route, query |-> query, pc |-> "arrived", calls |-> <<>>,
     threw |-> FALSE, status |-> 0, body |-> <<>>, listed |-> FALSE]

Respond(h, status, listed, body) ==
    [h EXCEPT !.pc = "answered", !.status = status, !.listed = listed, !.body = body]

\* both routes up to the engine call: 400 without a shop, 404 without an
\* active merchant
Arrive(route, query, docs) ==
    LET h == Handler(route, query) IN
    IF query.shop = NoShop THEN Respond(h, 400, FALSE, <<>>)
    ELSE IF ~ensureMerchant(query.shop) THEN Respond(h, 404, FALSE, <<>>)
    ELSE [h EXCEPT !.pc = "engine",
                   !.calls = <<IF route = "recommend" THEN RecommendCall(docs, query)
                               ELSE PopularCall(query)>>]

\* an item of an engine result; scores are in hundredths (94 is 0.94)
Item(n, reason) == [shopify_product_id |-> Gid(n), score |-> 94, reason |-> reason]

\* what the engine may answer: it fails (an error or a timeout), it returns a
\* body without a list, or it returns a list
EngineFails == [ok |-> FALSE, listed |-> FALSE, items |-> <<>>]
EngineUnlisted == [ok |-> TRUE, listed |-> FALSE, items |-> <<>>]
EngineReturns(items) == [ok |-> TRUE, listed |-> TRUE, items |-> items]
EngineOutcomes ==
    {EngineFails, EngineUnlisted}
    \cup {EngineReturns(items) :
            items \in {<<>>, <<Item(1, "ai")>>, <<Item(2, "ai"), Item(1, "ai")>>,
                       <<Item(3, "ai"), Item(2, "ai")>>}}

\* Product.find({ merchantId, shopifyProductId: { $in: ids } })
FindIn(rows, shop, ids) ==
    SelectSeq(rows, LAMBDA r : r.merchantId = shop /\ r.shopifyProductId \in ids)

\* (variant) the viewed products are put behind the result
BoostedAppended(rows, query, items) ==
    LET liveHistory == IdsOfText(query.history)
        existingIds == {items[i].shopify_product_id : i \in 1..Len(items)}
        missingViewedGids ==
            {liveHistory[i].chars : i \in {j \in 1..Len(liveHistory) :
                /\ liveHistory[j].type = "string"
                /\ liveHistory[j].chars \notin existingIds}}
        viewedProducts == FindIn(rows, query.shop, missingViewedGids)
        injected == Map(viewedProducts,
                        LAMBDA p : [shopify_product_id |-> p.shopifyProductId,
                                    score |-> 100,
                                    reason |-> "Recently viewed"])
    IN  IF Falsy(query.productId) /\ Len(liveHistory) > 0
           /\ \E j \in 1..Len(liveHistory) :
                 liveHistory[j].type # "string"
                 \/ liveHistory[j].chars \notin existingIds
        THEN Slice(items \o injected, ParseInt(query.k, 10))
        ELSE items

\* the homepage boost: viewed products the result lacks are put in front
Boosted(rows, query, items) ==
    LET liveHistory == IdsOfText(query.history)
        existingIds == {items[i].shopify_product_id : i \in 1..Len(items)}
        missingViewedGids ==
            {liveHistory[i].chars : i \in {j \in 1..Len(liveHistory) :
                /\ liveHistory[j].type = "string"
                /\ liveHistory[j].chars \notin existingIds}}
        viewedProducts == FindIn(rows, query.shop, missingViewedGids)
        injected == Map(viewedProducts,
                        LAMBDA p : [shopify_product_id |-> p.shopifyProductId,
                                    score |-> 100,
                                    reason |-> "Recently viewed"])
    IN  IF Falsy(query.productId) /\ Len(liveHistory) > 0
           /\ \E j \in 1..Len(liveHistory) :
                 liveHistory[j].type # "string"
                 \/ liveHistory[j].chars \notin existingIds
        THEN Slice(injected \o items, ParseInt(query.k, 10))
        ELSE items

\* handle and product_url from the mirror; '' for an item without a handle
HandleOf(rows, shop, id) ==
    LET found == FindIn(rows, shop, {id})
    IN  IF found = <<>> THEN <<>> ELSE found[Len(found)].handle

Enriched(rows, shop, items) ==
    Map(items, LAMBDA r :
        Assign(r, [handle |-> HandleOf(rows, shop, r.shopify_product_id),
                   product_url |->
                      IF HandleOf(rows, shop, r.shopify_product_id) = <<>> THEN <<>>
                      ELSE <<"/products/">> \o HandleOf(rows, shop, r.shopify_product_id)]))

\* (variant) GET /api/recommend falls back to the popular query itself
AfterEngineFallsBack(h, outcome, rows) ==
    IF ~outcome.ok /\ h.route = "recommend"
    THEN [Respond(h, 200, TRUE, <<>>) EXCEPT !.calls = Append(h.calls, PopularCall(h.query))]
    ELSE IF ~outcome.ok THEN Respond(h, 500, FALSE, <<>>)
    ELSE Respond(h, 200, outcome.listed, outcome.items)

\* the rest of a handler once the engine call has returned or thrown
AfterEngine(h, outcome, rows) ==
    IF ~outcome.ok THEN Respond(h, 500, FALSE, <<>>)
    ELSE IF ~outcome.listed THEN Respond(h, 200, FALSE, <<>>)
    ELSE IF h.route = "recommend"
    THEN Respond(h, 200, TRUE,
                 Enriched(rows, h.query.shop, Boosted(rows, h.query, outcome.items)))
    ELSE Respond(h, 200, TRUE, Enriched(rows, h.query.shop, outcome.items))

\* the queries a client may send
RecoQueries ==
    {RecoQuery(shop, productId, history, cart, k) :
        shop \in SettingsShops,
        productId \in {Undefined, Str(BareId(1)), Str(Gid(1))},
        history \in {NoText, GarbageText, JsonText(List(<<Str(BareId(2))>>)),
                     JsonText(List(<<Num(3), Str(Gid(1))>>)),
                     JsonText(List(<<Str(BareId(2)), Str(Gid(1))>>))},
        cart \in {NoText, GarbageText, JsonText(Obj), JsonText(List(<<>>)),
                  JsonText(List(<<Num(2), Num(1)>>)),
                  JsonText(List(<<Str(Gid(1)), Str(BareId(2)), Str(Gid(1))>>)),
                  JsonText(List(<<Null, Num(1)>>))},
        k \in {Undefined, Str(<<"1">>)}}

PopularQueries ==
    {RecoQuery(shop, Undefined, NoText, NoText, k) :
        shop \in SettingsShops, k \in {Undefined, Str(<<"1">>)}}

\* the widget's configuration: data attributes, the history kept in
\* localStorage and the cart's product ids
WidgetConfig(merchant, productId, history, cartProductIds, limit) ==
    [merchant |-> merchant, productId |-> productId, history |-> history,
     cartProductIds |-> cartProductIds, limit |-> limit]

WidgetConfigs ==
    {WidgetConfig(merchant, productId, history, cartProductIds, limit) :
        merchant \in SettingsShops,
        productId \in {<<>>, BareId(1)},
        history \in {<<>>, <<BareId(2)>>},
        cartProductIds \in {<<>>, <<BareId(2), BareId(1)>>},
        limit \in {1, 4}}

\* addToHistory(config.productId) followed by getHistory()
getHistory(config) ==
    IF config.productId = <<>> THEN config.history
    ELSE Slice(<<config.productId>>
               \o SelectSeq(config.history, LAMBDA id : id # config.productId), 5)

\* JSON.stringify(ids), '' for no ids; buildUrl leaves an empty value out
Stringify(ids) == IF ids = <<>> THEN NoText ELSE JsonText(List(Map(ids, Str)))

\* the first request of the widget: its route and its query
PrimaryRoute(config) ==
    IF config.productId # <<>> \/ getHistory(config) # <<>>
       \/ config.cartProductIds # <<>>
    THEN "recommend" ELSE "popular"

PrimaryQuery(config) ==
    RecoQuery(config.merchant,
              IF config.productId = <<>> THEN Undefined ELSE Str(config.productId),
              Stringify(getHistory(config)),
              Stringify(config.cartProductIds),
              Str(<<ToString(config.limit)>>))

FallbackQuery(config) ==
    RecoQuery(config.merchant, Undefined, NoText, NoText,
              Str(<<ToString(config.limit)>>))

\* normalizeItems(data) of a response; a response that is not ok rejects
normalizeItems(h) == IF h.status = 200 /\ h.listed THEN h.body ELSE <<>>

Session(pc, config, handled) ==
    [pc |-> pc, config |-> config, shown |-> <<>>, handled |-> handled]

notReco ==
    <<syncVars, platform, wh, transformed, oauthStates, now, auth, settings, batch,
     gql, boot>>

\* a request to one of the routes from a client other than the widget
DirectRequest(route, query) ==
    /\ reco = <<>>
    /\ reco' = <<Session("absent", <<>>, <<Arrive(route, query, settings)>>)>>
    /\ UNCHANGED notReco

\* initWidget(root) up to its first request
initWidget(config) ==
    /\ reco = <<>>
    /\ reco' = IF config.merchant = NoShop
               THEN <<Session("off", config, <<>>)>>
               ELSE <<Session("primary", config,
                        <<Arrive(PrimaryRoute(config), PrimaryQuery(config), settings)>>)>>
    /\ UNCHANGED notReco

\* the engine answers the call of handler i, which finishes
EngineAnswers(i, outcome) ==
    /\ reco # <<>>
    /\ i \in 1..Len(reco[1].handled)
    /\ reco[1].handled[i].pc = "engine"
    /\ reco' = <<[reco[1] EXCEPT !.handled[i] =
                    [AfterEngine(reco[1].handled[i], outcome, mirror)
                        EXCEPT !.threw = ~outcome.ok]]>>
    /\ UNCHANGED notReco

\* the widget's first request settles: with the handler's response, or
\* (arrives = FALSE) with the 3000 ms timeout or a network error
W_Primary(arrives) ==
    /\ reco # <<>>
    /\ reco[1].pc = "primary"
    /\ arrives => reco[1].handled[1].pc = "answered"
    /\ LET items == IF arrives THEN normalizeItems(reco[1].handled[1]) ELSE <<>>
       IN  reco' = <<IF items # <<>>
                     THEN [reco[1] EXCEPT !.pc = "rendered", !.shown = items]
                     ELSE [reco[1] EXCEPT
                             !.pc = "fallback",
                             !.handled = Append(reco[1].handled,
                                 Arrive("popular", FallbackQuery(reco[1].config),
                                        settings))]>>
    /\ UNCHANGED notReco

\* the widget's fallback request settles
W_Fallback(arrives) ==
    /\ reco # <<>>
    /\ reco[1].pc = "fallback"
    /\ arrives => reco[1].handled[2].pc = "answered"
    /\ LET items == IF arrives THEN normalizeItems(reco[1].handled[2]) ELSE <<>>
       IN  reco' = <<IF items # <<>>
                     THEN [reco[1] EXCEPT !.pc = "rendered", !.shown = items]
                     ELSE [reco[1] EXCEPT !.pc = "cleared"]>>
    /\ UNCHANGED notReco

\* the mirror holds product 1 with a handle and product 2 without one
RecoRows ==
    <<Assign(ProductDoc("s1", RawProduct(BareId(1), 1, "array")), [handle |-> <<"serum">>]),
      Assign(ProductDoc("s1", RawProduct(BareId(2), 2, "array")), [handle |-> <<>>])>>

ManualSettings ==
    [shop |-> "s1", mode |-> "manual", filters |-> ManualFilters,
     weights |-> ManualWeights]

RecoInit ==
    /\ merchants = InitialMerchants
    /\ mirror = RecoRows
    /\ engine = InitialEngine
    /\ procs = EmptyBag
    /\ started = 0
    /\ past = "clean"
    /\ platform = <<>>
    /\ wh = <<>>
    /\ transformed = <<>>
    /\ oauthStates = <<>>
    /\ now = 0
    /\ auth = <<>>
    /\ settings \in {<<>>, <<ManualSettings>>}
    /\ reco = <<>>
    /\ batch = <<>>
    /\ gql = <<>>
    /\ boot = <<>>

RecoNext ==
    \/ \E query \in RecoQueries : DirectRequest("recommend", query)
    \/ \E query \in PopularQueries : DirectRequest("popular", query)
    \/ \E config \in WidgetConfigs : initWidget(config)
    \/ \E i \in 1..2, outcome \in EngineOutcomes : EngineAnswers(i, outcome)
    \/ \E arrives \in BOOLEAN : W_Primary(arrives)
    \/ \E arrives \in BOOLEAN : W_Fallback(arrives)

SpecReco == RecoInit /\ [][RecoNext]_vars

----------------------------------------------------------------------------
(* SyncService.syncAllMerchants: the daily cron job's batch               *)

\* Merchant.find({ isActive: true }), in the collection's order
ShopOrder == <<"s1", "s2">>
FindActive(ms) ==
    SelectSeq(ShopOrder, LAMBDA shop : ms[shop].exists /\ ms[shop].isActive)

notBatch ==
    <<platform, wh, transformed, oauthStates, now, auth, settings, reco,
     gql, boot>>

\* the cron job fires: syncAllMerchants reads the active merchants
SAM_Start ==
    /\ batch = <<>>
    /\ batch' = <<[pc |-> "loop", merchants |-> FindActive(merchants),
                   next |-> 1, results |-> <<>>]>>
    /\ UNCHANGED <<syncVars, notBatch>>

\* for (const merchant of merchants): await this.fullSync(merchant.shop, ...)
SAM_Call ==
    /\ batch # <<>>
    /\ batch[1].pc = "loop"
    /\ batch[1].next <= Len(batch[1].merchants)
    /\ Quiet
    /\ Launch("fs", batch[1].merchants[batch[1].next], <<>>, "fetch")
    /\ UNCHANGED <<merchants, mirror, engine, past, batch, notBatch>>

\* what the loop pushes for a fullSync that returned or threw
ResultOf(p) ==
    IF p.pc = "done" THEN [shop |-> p.shop, success |-> TRUE, error |-> "none"]
    ELSE [shop |-> p.shop, success |-> FALSE, error |-> p.err]

\* (variant) the loop has no try/catch of its own: a fullSync that throws
\* ends the batch
SAM_CollectRethrow(p) ==
    /\ batch # <<>>
    /\ batch[1].pc = "loop"
    /\ Finished(p)
    /\ procs' = procs (-) SetToBag({p})
    /\ past' = Outcome(p)
    /\ batch' = <<IF p.pc = "done"
                  THEN [batch[1] EXCEPT !.results = Append(@, ResultOf(p)),
                                        !.next = @ + 1]
                  ELSE [batch[1] EXCEPT !.pc = "failed"]>>
    /\ UNCHANGED <<merchants, mirror, engine, started, notBatch>>

\* the awaited fullSync settles: results.push(...) in the try or in the catch
SAM_Collect(p) ==
    /\ batch # <<>>
    /\ batch[1].pc = "loop"
    /\ Finished(p)
    /\ procs' = procs (-) SetToBag({p})
    /\ past' = Outcome(p)
    /\ batch' = <<[batch[1] EXCEPT !.results = Append(@, ResultOf(p)),
                                   !.next = @ + 1]>>
    /\ UNCHANGED <<merchants, mirror, engine, started, notBatch>>

\* return results
SAM_Return ==
    /\ batch # <<>>
    /\ batch[1].pc = "loop"
    /\ batch[1].next > Len(batch[1].merchants)
    /\ batch' = <<[batch[1] EXCEPT !.pc = "returned"]>>
    /\ UNCHANGED <<syncVars, notBatch>>

\* s1 is installed; s2 is installed, uninstalled or unknown
BatchMerchants ==
    {[s \in Shops |->
        IF s = "s1" THEN NewMerchant
        ELSE other] :
     other \in {NewMerchant,
                [NewMerchant EXCEPT !.isActive = FALSE],
                NoMerchant}}

BatchInit ==
    /\ merchants \in BatchMerchants
    /\ mirror = <<InitialRow>>
    /\ engine = InitialEngine
    /\ procs = EmptyBag
    /\ started = 0
    /\ past = "clean"
    /\ platform = <<>>
    /\ wh = <<>>
    /\ transformed = <<>>
    /\ oauthStates = <<>>
    /\ now = 0
    /\ auth = <<>>
    /\ settings = <<>>
    /\ reco = <<>>
    /\ batch = <<>>
    /\ gql = <<>>
    /\ boot = <<>>

BatchNext ==
    \/ SAM_Start
    \/ SAM_Call
    \/ \E p \in Running : FS_FetchPage(p)
    \/ \E p \in Running : FS_Delete(p)
    \/ \E p \in Running : FS_Insert(p)
    \/ \E p \in Running : FS_Push(p)
    \/ \E p \in Running : FS_Save(p)
    \/ \E p \in Running : SAM_Collect(p)
    \/ SAM_Return

SpecBatch == BatchInit /\ [][BatchNext]_vars

----------------------------------------------------------------------------
(* The life of a Merchant record: OAuth callbacks, the uninstall webhook   *)
(* and the full sync that a callback starts                                *)

\* the platform redirects back with the state it was given
LifeQueries == {Query("s2", "code", state, TRUE) : state \in 1..2}

\* the signed app/uninstalled delivery for a shop
UninstallRequest(shop) ==
    Request("app/uninstalled", shop, EmptyBody, Hmac(SHOPIFY_API_SECRET, EmptyBody))

\* s1 is installed; GET /auth has answered twice for s2 (two browser tabs on
\* the install link)
LifeInit ==
    /\ merchants = InitialMerchants
    /\ mirror = <<InitialRow>>
    /\ engine = InitialEngine
    /\ procs = EmptyBag
    /\ started = 0
    /\ past = "clean"
    /\ platform = <<>>
    /\ wh = <<>>
    /\ transformed = <<>>
    /\ oauthStates = [state \in 1..2 |->
            [shop |-> "s2", expiresAt |-> OAUTH_STATE_TTL_MS]]
    /\ now = 0
    /\ auth = <<>>
    /\ settings = <<>>
    /\ reco = <<>>
    /\ batch = <<>>
    /\ gql = <<>>
    /\ boot = <<>>

LifeNext ==
    \/ \E query \in LifeQueries : query.state \in DOMAIN oauthStates /\ Callback(query)
    \/ \E k \in 1..Len(auth) : CB_Exchange(k)
    \/ \E k \in 1..Len(auth) : CB_Find(k)
    \/ \E k \in 1..Len(auth) : CB_Save(k)
    \/ \E k \in 1..Len(auth) : CB_RegisterAndSync(k)
    \/ merchants["s2"].isActive /\ Deliver(UninstallRequest("s2"))
    \/ \E p \in Running : UNIN_Deactivate(p)
    \/ \E p \in Running : UNIN_Clear(p)
    \/ \E p \in Running : HookRespond(p)
    \/ \E p \in Running : FS_FetchPage(p)
    \/ \E p \in Running : FS_Delete(p)
    \/ \E p \in Running : FS_Insert(p)
    \/ \E p \in Running : FS_Push(p)
    \/ \E p \in Running : FS_Save(p)
    \/ \E p \in Running : p.op = "fs" /\ Return(p)

SpecLife == LifeInit /\ [][LifeNext]_vars

----------------------------------------------------------------------------
(* utils/shopifyGraphql.js: shopifyGraphqlRequest *)
(* A response is what axios.post ends with: an HTTP status (0: no response  *)
(* at all, a network error or the timeout), the errors array of the         *)
(* payload and its data ("" where the payload has none).                   *)

maxAttempts == 3

Response(status, errors, data) == [status |-> status, errors |-> errors, data |-> data]

Responses ==
    {Response(200, <<>>, data) : data \in {"products", "webhooks", ""}}
    \cup {Response(200, errors, "") : errors \in {<<"Throttled">>, <<"">>}}
    \cup {Response(status, <<>>, "") : status \in {0, 400, 401, 429, 500, 503, 599, 600}}

\* axios rejects a status outside 2xx and a request without a response; the
\* try block throws on a payload with errors
Rejected(response) == response.status # 200 \/ Len(response.errors) > 0

\* (variant) every error is retried
retryableAlways(status) == TRUE

\* const retryable = status === 429 || (status >= 500 && status < 600),
\* where status is undefined (0 here) for an error without a response
retryable(status) == status = 429 \/ (status >= 500 /\ status < 600)

\* the error the catch holds: the axios error with its response status, or
\* the Error made of the payload's messages
ErrorOf(response) ==
    IF response.status # 200 THEN [status |-> response.status, message |-> "axios"]
    ELSE [status |-> 0,
          message |-> IF response.errors = <<"">> THEN "Shopify GraphQL request failed"
                      ELSE response.errors[1]]

\* payload.data || {}
DataOf(response) == IF response.data = "" THEN "{}" ELSE response.data

GqlArgs == {[shop |-> "s1", accessToken |-> "token", query |-> "query"],
            [shop |-> "", accessToken |-> "token", query |-> "query"],
            [shop |-> "s1", accessToken |-> "", query |-> "query"],
            [shop |-> "s1", accessToken |-> "token", query |-> ""]}

\* the call up to its first await: the three argument checks
GQL_Call(args) ==
    /\ gql = <<>>
    /\ gql' = <<[args |-> args, attempt |-> 1, posts |-> <<>>, waits |-> <<>>,
                 called |-> now, result |-> "",
                 pc |-> IF args.shop = "" \/ args.accessToken = "" \/ args.query = ""
                        THEN "thrown" ELSE "post",
                 lastError |-> IF args.shop = "" THEN <<"shop is required">>
                               ELSE IF args.accessToken = "" THEN <<"accessToken is required">>
                               ELSE IF args.query = "" THEN <<"query is required">>
                               ELSE <<>>]>>
    /\ UNCHANGED <<syncVars, platform, wh, transformed, oauthStates, now, auth,
                   settings, reco, batch, boot>>

\* one iteration of the loop up to its await of wait(): axios.post answers;
\* return payload.data || {}, or the catch, which breaks out to
\* throw lastError or goes on to wait
GQL_Post(response) ==
    /\ gql # <<>> /\ gql[1].pc = "post"
    /\ LET g == [gql[1] EXCEPT !.posts = Append(@, [response |-> response, at |-> now])] IN
       gql' = <<IF ~Rejected(response)
                THEN [g EXCEPT !.pc = "returned", !.result = DataOf(response)]
                ELSE IF ~retryable(ErrorOf(response).status) \/ g.attempt = maxAttempts
                THEN [g EXCEPT !.pc = "thrown", !.lastError = <<ErrorOf(response)>>]
                ELSE [g EXCEPT !.pc = "wait", !.lastError = <<ErrorOf(response)>>]>>
    /\ UNCHANGED <<syncVars, platform, wh, transformed, oauthStates, now, auth,
                   settings, reco, batch, boot>>

\* await wait(300 * attempt), then attempt += 1
GQL_Wait ==
    /\ gql # <<>> /\ gql[1].pc = "wait"
    /\ now' = now + 300 * gql[1].attempt
    /\ gql' = <<[gql[1] EXCEPT !.pc = "post", !.attempt = @ + 1,
                               !.waits = Append(@, 300 * gql[1].attempt)]>>
    /\ UNCHANGED <<syncVars, platform, wh, transformed, oauthStates, auth,
                   settings, reco, batch, boot>>

GqlInit ==
    /\ merchants = InitialMerchants
    /\ mirror = <<InitialRow>>
    /\ engine = InitialEngine
    /\ procs = EmptyBag
    /\ started = 0
    /\ past = "clean"
    /\ platform = <<>>
    /\ wh = <<>>
    /\ transformed = <<>>
    /\ oauthStates = <<>>
    /\ now = 0
    /\ auth = <<>>
    /\ settings = <<>>
    /\ reco = <<>>
    /\ batch = <<>>
    /\ gql = <<>>
    /\ boot = <<>>

GqlNext ==
    \/ \E args \in GqlArgs : GQL_Call(args)
    \/ \E response \in Responses : GQL_Post(response)
    \/ GQL_Wait

SpecGql == GqlInit /\ [][GqlNext]_vars

----------------------------------------------------------------------------
(* index.js: startServer and autoSyncProducts, and the install callbacks   *)
(* the server takes once it listens                                        *)

\* startServer is called: the production check of TOKEN_ENCRYPTION_KEY
Boot_Start(keyMissing) ==
    /\ boot = <<>>
    /\ boot' = <<[pc |-> IF keyMissing THEN "exited" ELSE "connect",
                  merchants |-> <<>>, i |-> 0, products |-> <<>>, log |-> <<>>]>>
    /\ UNCHANGED <<syncVars, platform, wh, transformed, oauthStates, now, auth,
                   settings, reco, batch, gql>>

At(pc) == boot # <<>> /\ boot[1].pc = pc

Logged(b, shop, step, outcome) ==
    [b EXCEPT !.log = Append(@, [shop |-> shop, step |-> step, outcome |-> outcome])]

\* await connectDB(): its catch calls process.exit(1)
Boot_Connect ==
    /\ At("connect")
    /\ \E pc \in {"health", "exited"} : boot' = <<[boot[1] EXCEPT !.pc = pc]>>
    /\ UNCHANGED <<syncVars, platform, wh, transformed, oauthStates, now, auth,
                   settings, reco, batch, gql>>

\* await flaskService.healthCheck(): a throw is caught by startServer's inner
\* try, which skips the auto-sync
Boot_Health ==
    /\ At("health")
    /\ \E pc \in {"find", "listen"} : boot' = <<[boot[1] EXCEPT !.pc = pc]>>
    /\ UNCHANGED <<syncVars, platform, wh, transformed, oauthStates, now, auth,
                   settings, reco, batch, gql>>

\* autoSyncProducts: const merchants = await Merchant.find({ isActive: true });
\* return when there is none; a throw is caught by its outer catch
Boot_Find ==
    /\ At("find")
    /\ \/ boot' = <<[boot[1] EXCEPT !.merchants = FindActive(merchants),
                                    !.i = IF FindActive(merchants) = <<>> THEN 0 ELSE 1,
                                    !.pc = IF FindActive(merchants) = <<>>
                                           THEN "listen" ELSE "hooks"]>>
       \/ boot' = <<[boot[1] EXCEPT !.pc = "listen"]>>
    /\ UNCHANGED <<syncVars, platform, wh, transformed, oauthStates, now, auth,
                   settings, reco, batch, gql>>

\* the end of the loop body, by continue or through the merchant's catch
NextMerchant(b) ==
    IF b.i = Len(b.merchants) THEN [b EXCEPT !.pc = "listen", !.products = <<>>]
    ELSE [b EXCEPT !.pc = "hooks", !.i = @ + 1, !.products = <<>>]

\* (variant) registerWebhooks is awaited outside the inner try: its throw
\* goes to the merchant's catch
Boot_HooksUncaught ==
    /\ At("hooks")
    /\ LET b == boot[1] shop == b.merchants[b.i] IN
       \/ boot' = <<[Logged(b, shop, "registerWebhooks", "returned") EXCEPT !.pc = "products"]>>
       \/ boot' = <<NextMerchant(Logged(b, shop, "registerWebhooks", "threw"))>>
    /\ UNCHANGED <<syncVars, platform, wh, transformed, oauthStates, now, auth,
                   settings, reco, batch, gql>>

\* try { await WebhookService.registerWebhooks(...) } catch (err) { warn }
Boot_Hooks ==
    /\ At("hooks")
    /\ LET b == boot[1] shop == b.merchants[b.i] IN
       \E outcome \in {"returned", "threw"} :
          boot' = <<[Logged(b, shop, "registerWebhooks", outcome) EXCEPT !.pc = "products"]>>
    /\ UNCHANGED <<syncVars, platform, wh, transformed, oauthStates, now, auth,
                   settings, reco, batch, gql>>

\* const products = await Product.find({ merchantId: merchant._id });
\* if (!products.length) continue
Boot_Products ==
    /\ At("products")
    /\ LET b == boot[1]
           shop == b.merchants[b.i]
           products == FindByMerchant(mirror, shop)
       IN  \/ boot' = <<IF products = <<>>
                        THEN NextMerchant(Logged(b, shop, "Product.find", "none"))
                        ELSE [Logged(b, shop, "Product.find", "some") EXCEPT
                                  !.pc = "push", !.products = products]>>
           \/ boot' = <<NextMerchant(Logged(b, shop, "Product.find", "threw"))>>
    /\ UNCHANGED <<syncVars, platform, wh, transformed, oauthStates, now, auth,
                   settings, reco, batch, gql>>

\* await flaskService.registerMerchantProducts(merchant.shop, flaskProducts);
\* a throw is caught by the merchant's catch
Boot_Push ==
    /\ At("push")
    /\ LET b == boot[1]
           shop == b.merchants[b.i]
           flaskProducts == Map(b.products, FlaskProduct)
       IN  \/ /\ engine' = Register(engine, shop, flaskProducts)
              /\ boot' = <<NextMerchant(Logged(b, shop, "register", "returned"))>>
           \/ /\ boot' = <<NextMerchant(Logged(b, shop, "register", "threw"))>>
              /\ UNCHANGED engine
    /\ UNCHANGED <<merchants, mirror, procs, started, past, platform, wh,
                   transformed, oauthStates, now, auth, settings, reco, batch, gql>>

\* app.listen(PORT, ...)
Boot_Listen ==
    /\ At("listen")
    /\ boot' = <<[boot[1] EXCEPT !.pc = "listening"]>>
    /\ UNCHANGED <<syncVars, platform, wh, transformed, oauthStates, now, auth,
                   settings, reco, batch, gql>>

BootMirrors ==
    {<<InitialRow>>,
     <<InitialRow, ProductDoc("s2", RawProduct(BareId(1), 1, "array"))>>,
     <<ProductDoc("s2", RawProduct(BareId(1), 1, "array"))>>}

\* the process starts: the engine may have lost its lists or kept them
BootInit ==
    /\ merchants \in BatchMerchants
    /\ mirror \in BootMirrors
    /\ engine \in {InitialEngine, [s \in Shops |-> <<>>]}
    /\ procs = EmptyBag
    /\ started = 0
    /\ past = "clean"
    /\ platform = <<>>
    /\ wh = <<>>
    /\ transformed = <<>>
    /\ oauthStates = <<>>
    /\ now = 0
    /\ auth = <<>>
    /\ settings = <<>>
    /\ reco = <<>>
    /\ batch = <<>>
    /\ gql = <<>>
    /\ boot = <<>>

\* the steps of the start
BootSteps ==
    \/ Boot_Connect
    \/ Boot_Health
    \/ Boot_Find
    \/ Boot_Hooks
    \/ Boot_Products
    \/ Boot_Push
    \/ Boot_Listen

\* once the server listens it takes install requests: the platform sends a
\* merchant back with the state the server gave
BootNext ==
    \/ \E keyMissing \in BOOLEAN : Boot_Start(keyMissing)
    \/ BootSteps
    \/ At("listening") /\ \E shop \in Shops : AuthStart(shop)
    \/ At("listening") /\ \E query \in CallbackQueries :
            /\ query.hmacOk /\ query.state \in DOMAIN oauthStates
            /\ query.shop = oauthStates[query.state].shop
            /\ Callback(query)
    \/ \E k \in 1..Len(auth) : CB_Exchange(k)
    \/ \E k \in 1..Len(auth) : CB_Find(k)
    \/ \E k \in 1..Len(auth) : CB_Save(k)
    \/ \E k \in 1..Len(auth) : CB_RegisterAndSync(k)

SpecBoot == BootInit /\ [][BootNext]_vars

----------------------------------------------------------------------------
(* WebhookService.registerWebhooks: the subscription reconciler            *)
(* A URL is a sequence of tokens: a host, a path, "/" and white space.     *)

WEBHOOK_SUBSCRIPTIONS == <<
    [topic |-> "PRODUCTS_CREATE", path |-> "/webhooks/products/create"],
    [topic |-> "PRODUCTS_UPDATE", path |-> "/webhooks/products/update"],
    [topic |-> "PRODUCTS_DELETE", path |-> "/webhooks/products/delete"],
    [topic |-> "APP_UNINSTALLED", path |-> "/webhooks/app/uninstalled"],
    [topic |-> "CUSTOMERS_DATA_REQUEST", path |-> "/webhooks/customers/data_request"],
    [topic |-> "CUSTOMERS_REDACT", path |-> "/webhooks/customers/redact"],
    [topic |-> "SHOP_REDACT", path |-> "/webhooks/shop/redact"] >>

Slash == "/"
CurrentHost == "https://app.example"
OldHost == "https://old-tunnel.example"

\* .replace(/\/+$/, '')
RECURSIVE StripSlashes(_)
StripSlashes(s) ==
    IF s # <<>> /\ s[Len(s)] = Slash THEN StripSlashes(SubSeq(s, 1, Len(s) - 1))
    ELSE s

\* String(host || '').trim().replace(/\/+$/, '')
normalizeHost(host) == StripSlashes(Trim(host))

\* String(address || '').trim().replace(/\/+$/, '')
normalizeAddress(address) == StripSlashes(Trim(address))

\* values of process.env.SHOPIFY_HOST
HostSettings == {<<CurrentHost>>, <<Space, CurrentHost, Slash>>, <<>>}

\* A subscription on the platform; one whose endpoint is not an HTTP endpoint
\* (an event bus, a message queue) has no callbackUrl: address <<>>.
Subscription(id, topic, address) == [id |-> id, topic |-> topic, address |-> address]

\* The subscriptions a shop may hold when a call starts.  Of PRODUCTS_CREATE:
\* at the current URL, the same with a trailing slash, at the URL of an earlier
\* deployment, or not an HTTP endpoint at all; of PRODUCTS_UPDATE: at the
\* current URL or at an earlier one; and one of a topic the app does not want.
Held ==
    { <<"PRODUCTS_CREATE", <<CurrentHost, "/webhooks/products/create">> >>,
      <<"PRODUCTS_CREATE", <<CurrentHost, "/webhooks/products/create", Slash>> >>,
      <<"PRODUCTS_CREATE", <<OldHost, "/webhooks/products/create">> >>,
      <<"PRODUCTS_CREATE", <<>> >>,
      <<"PRODUCTS_UPDATE", <<CurrentHost, "/webhooks/products/update">> >>,
      <<"PRODUCTS_UPDATE", <<OldHost, "/webhooks/products/update", Slash>> >>,
      <<"ORDERS_CREATE", <<OldHost, "/webhooks/orders/create">> >> }

\* the platform numbers the subscriptions as they are created
InitialPlatforms ==
    UNION {{[i \in 1..n |-> Subscription(i, c[i][1], c[i][2])] : c \in [1..n -> Held]} :
           n \in 0..MaxSubs}

\* _listWebhooks: nodes without id, topic or callbackUrl are skipped
listWebhooks(subs) == SelectSeq(subs, LAMBDA node : node.address # <<>>)

MaxId(subs) == IF subs = <<>> THEN 0
               ELSE CHOOSE m \in {n.id : n \in Range(subs)} : \A n \in Range(subs) : n.id <= m

\* _createWebhook: webhookSubscriptionCreate(topic, {callbackUrl})
createWebhook(subs, known, topic, callbackUrl) ==
    Append(subs, Subscription(1 + MaxId(subs \o known), topic, callbackUrl))

\* _deleteWebhook: webhookSubscriptionDelete(id)
deleteWebhook(subs, id) == SelectSeq(subs, LAMBDA node : node.id # id)

\* existing.filter(w => w.topic === sub.topic)
TopicWebhooks(existing, sub) == SelectSeq(existing, LAMBDA w : w.topic = sub.topic)

Matches(existing, sub, desiredAddress) ==
    SelectSeq(TopicWebhooks(existing, sub),
              LAMBDA w : normalizeAddress(w.address) = desiredAddress)

\* (mutant) stale subscriptions are not looked for
StaleNone(existing, sub, desiredAddress) == <<>>

Stale(existing, sub, desiredAddress) ==
    SelectSeq(TopicWebhooks(existing, sub),
              LAMBDA w : normalizeAddress(w.address) # desiredAddress)

IdsIn(subs) == Map(subs, LAMBDA w : w.id)

\* the call in flight: host is the normalised base URL, before the platform's
\* subscriptions when the call began, existing the listing, t the index of the
\* topic in hand, queue the ids the running delete loop has still to delete
Call(host, run) ==
    [pc |-> "list", host |-> host, run |-> run, before |-> platform,
     existing |-> <<>>, t |-> 0, queue |-> <<>>,
     created |-> 0, removed |-> 0, unchanged |-> 0, err |-> "none",
     userErrors |-> <<>>]

Failed(w, reason) == [w EXCEPT !.pc = "failed", !.err = reason]

\* userErrors arrays of a mutation's payload
UserErrorLists ==
    {<<[field |-> "callbackUrl", message |-> "Address is invalid"]>>,
     <<[field |-> "callbackUrl", message |-> "Address is invalid"],
       [field |-> "topic", message |-> "Topic has already been taken"]>>}

\* messages.join('; ')
RECURSIVE Join(_)
Join(messages) ==
    IF Len(messages) = 1 THEN messages[1]
    ELSE messages[1] \o "; " \o Join(Tail(messages))

\* (variant) the fallback text is used whatever the userErrors say
toErrorMessageFallback(userErrors, fallback) == fallback

\* toErrorMessage: the messages that are not empty, joined, or the fallback
toErrorMessage(userErrors, fallback) ==
    LET messages == SelectSeq(Map(userErrors, LAMBDA entry : entry.message),
                              LAMBDA message : message # "")
    IN  IF Len(messages) > 0 THEN Join(messages) ELSE fallback

\* if (userErrors.length > 0) throw new Error(toErrorMessage(userErrors, ...))
UserErrorsThrown(w, userErrors, fallback) ==
    [Failed(w, toErrorMessage(userErrors, fallback)) EXCEPT !.userErrors = userErrors]

\* The loop body between two awaits: from the top of the iteration for topic t
\* (EnterTopic) or from the end of its stale loop (AfterStale) to the next
\* request, or to the return.
RECURSIVE EnterTopic(_, _)
RECURSIVE AfterStale(_, _)

\* (mutant) duplicate matches are kept, as before the pruning loop was added
AfterStaleNoPrune(w, t) ==
    LET sub == WEBHOOK_SUBSCRIPTIONS[t]
        matches == Matches(w.existing, sub, w.host \o <<sub.path>>)
    IN  IF Len(matches) > 0
        THEN EnterTopic([w EXCEPT !.unchanged = @ + 1], t + 1)
        ELSE [w EXCEPT !.pc = "create", !.t = t, !.queue = <<>>]

AfterStale(w, t) ==
    LET sub == WEBHOOK_SUBSCRIPTIONS[t]
        matches == Matches(w.existing, sub, w.host \o <<sub.path>>)
    IN  IF Len(matches) > 0
        THEN IF Len(matches) > 1
             THEN [w EXCEPT !.pc = "duplicates", !.t = t,
                            !.queue = IdsIn(Tail(matches))]
             ELSE EnterTopic([w EXCEPT !.unchanged = @ + 1], t + 1)
        ELSE [w EXCEPT !.pc = "create", !.t = t, !.queue = <<>>]

EnterTopic(w, t) ==
    IF t > Len(WEBHOOK_SUBSCRIPTIONS)
    THEN [w EXCEPT !.pc = "done", !.t = t, !.queue = <<>>]
    ELSE LET sub == WEBHOOK_SUBSCRIPTIONS[t]
             stale == Stale(w.existing, sub, w.host \o <<sub.path>>)
         IN  IF stale # <<>>
             THEN [w EXCEPT !.pc = "stale", !.t = t, !.queue = IdsIn(stale)]
             ELSE AfterStale(w, t)

\* registerWebhooks(shop, accessToken) is called (OAuth callback, startup
\* pass); a call starts when the one before has returned or thrown
RegisterWebhooks(host) ==
    /\ \/ wh = <<>>
       \/ wh # <<>> /\ wh[1].pc \in {"done", "failed"} /\ wh[1].run < MaxOps
    /\ LET w == Call(normalizeHost(host), IF wh = <<>> THEN 1 ELSE wh[1].run + 1)
       IN  wh' = <<IF w.host = <<>> THEN Failed(w, "SHOPIFY_HOST is required") ELSE w>>
    /\ UNCHANGED <<platform, syncVars, aside>>

\* const existing = await this._listWebhooks(shop, accessToken)
WH_List ==
    /\ wh # <<>> /\ wh[1].pc = "list"
    /\ \/ wh' = <<EnterTopic([wh[1] EXCEPT !.existing = listWebhooks(platform)], 1)>>
       \/ wh' = <<Failed(wh[1], "list")>>
    /\ UNCHANGED <<platform, syncVars, aside>>

\* for (const webhook of stale) { await this._deleteWebhook(...); removed += 1 }
WH_DeleteStale ==
    /\ wh # <<>> /\ wh[1].pc = "stale"
    /\ \/ /\ platform' = deleteWebhook(platform, Head(wh[1].queue))
          /\ LET w == [wh[1] EXCEPT !.removed = @ + 1, !.queue = Tail(@)]
             IN  wh' = <<IF w.queue = <<>> THEN AfterStale(w, w.t) ELSE w>>
       \/ /\ wh' = <<Failed(wh[1], "delete")>>
          /\ UNCHANGED platform
       \/ /\ \E userErrors \in UserErrorLists :
                wh' = <<UserErrorsThrown(wh[1], userErrors,
                            "Failed to delete webhook " \o ToString(Head(wh[1].queue)))>>
          /\ UNCHANGED platform
    /\ UNCHANGED <<syncVars, aside>>

\* for (let i = 1; i < matches.length; i += 1) { await this._deleteWebhook(...);
\* removed += 1 }  unchanged += 1; continue
WH_DeleteDuplicate ==
    /\ wh # <<>> /\ wh[1].pc = "duplicates"
    /\ \/ /\ platform' = deleteWebhook(platform, Head(wh[1].queue))
          /\ LET w == [wh[1] EXCEPT !.removed = @ + 1, !.queue = Tail(@)]
             IN  wh' = <<IF w.queue = <<>>
                         THEN EnterTopic([w EXCEPT !.unchanged = @ + 1], w.t + 1)
                         ELSE w>>
       \/ /\ wh' = <<Failed(wh[1], "delete")>>
          /\ UNCHANGED platform
       \/ /\ \E userErrors \in UserErrorLists :
                wh' = <<UserErrorsThrown(wh[1], userErrors,
                            "Failed to delete webhook " \o ToString(Head(wh[1].queue)))>>
          /\ UNCHANGED platform
    /\ UNCHANGED <<syncVars, aside>>

\* await this._createWebhook(shop, accessToken, sub.topic, desiredAddress);
\* created += 1
WH_Create ==
    /\ wh # <<>> /\ wh[1].pc = "create"
    /\ \/ LET sub == WEBHOOK_SUBSCRIPTIONS[wh[1].t]
          IN  /\ platform' = createWebhook(platform, wh[1].existing, sub.topic,
                                           wh[1].host \o <<sub.path>>)
              /\ wh' = <<EnterTopic([wh[1] EXCEPT !.created = @ + 1], wh[1].t + 1)>>
       \/ /\ wh' = <<Failed(wh[1], "create")>>
          /\ UNCHANGED platform
       \/ /\ \E userErrors \in UserErrorLists :
                wh' = <<UserErrorsThrown(wh[1], userErrors,
                            "Failed to create webhook for topic "
                            \o WEBHOOK_SUBSCRIPTIONS[wh[1].t].topic)>>
          /\ UNCHANGED platform
    /\ UNCHANGED <<syncVars, aside>>

\* the platform holds some subscriptions; no sync operation runs
SubInit ==
    /\ merchants = InitialMerchants
    /\ mirror = <<InitialRow>>
    /\ engine = InitialEngine
    /\ procs = EmptyBag
    /\ started = 0
    /\ past = "clean"
    /\ platform \in InitialPlatforms
    /\ wh = <<>>
    /\ transformed = <<>>
    /\ oauthStates = <<>>
    /\ now = 0
    /\ auth = <<>>
    /\ settings = <<>>
    /\ reco = <<>>
    /\ batch = <<>>
    /\ gql = <<>>
    /\ boot = <<>>

SubNext ==
    \/ \E host \in HostSettings : RegisterWebhooks(host)
    \/ WH_List
    \/ WH_DeleteStale
    \/ WH_DeleteDuplicate
    \/ WH_Create

SpecSub == SubInit /\ [][SubNext]_vars

----------------------------------------------------------------------------
(* Properties of the synchronisation core *)

RowsOf(shop) == FindByMerchant(mirror, shop)

IdsOf(rows) == {rows[k].shopifyProductId : k \in 1..Len(rows)}

DistinctIds(rows) ==
    \A j, k \in 1..Len(rows) : j # k => rows[j].shopifyProductId # rows[k].shopifyProductId

\* the row a raw product is mirrored as
RowFor(shop, sp) ==
    [merchantId |-> shop, shopifyProductId |-> normalizeProductId(sp.id),
     title |-> transformProduct(sp).title, price |-> transformProduct(sp).price]

\* C1: when a fullSync that no other operation overlaps completes, the rows
\* of its merchant are exactly the transformed products of the fetched
\* catalog: one row per external product, under its normalized id, no row
\* of a product that is not in the catalog, and no id twice.
C1_FullSyncMirrorsCatalog ==
    \A p \in Running :
        (p.op = "fs" /\ p.pc = "done") =>
            LET rows == RowsOf(p.shop) IN
            /\ Len(rows) = Len(p.fetched)
            /\ \A k \in 1..Len(p.fetched) :
                    \E j \in 1..Len(rows) : rows[j] = RowFor(p.shop, p.fetched[k])
            /\ \A j \in 1..Len(rows) :
                    \E k \in 1..Len(p.fetched) :
                        /\ rows[j] = RowFor(p.shop, p.fetched[k])
                        /\ Head(rows[j].shopifyProductId) = GidPrefix
            /\ DistinctIds(rows)

\* a fullSync of s1 has completed with a catalog that lacks product 1, and
\* the row of product 1 the mirror held before is gone
C1_Witness ==
    \E p \in Running :
        /\ p.op = "fs" /\ p.pc = "done" /\ p.shop = "s1"
        /\ Len(p.fetched) = 1
        /\ ~HasKey(mirror, "s1", Gid(1))
        /\ HasKey(mirror, "s1", Gid(2))

\* C2: a fullSync has called the engine only after its bulk insert was
\* committed, with exactly the documents that insert returned; a fullSync
\* that failed in the delete-all or the bulk insert has made no engine call.
C2_PushAfterCommit ==
    \A p \in Running :
        p.op = "fs" =>
            /\ p.calls # <<>> =>
                /\ p.hit = "inserted"
                /\ p.list = ProductsToSave(p)
                /\ p.calls = <<RegisterCall(Map(p.list, FlaskProduct))>>
            /\ (p.pc = "failed"
                    /\ p.err \in {"deleteMany", "insertMany", "duplicate", "validation"})
                => p.calls = <<>>
            /\ p.pc \in {"fetch", "delete", "insert", "push"} => p.calls = <<>>

\* a fullSync has pushed the two rows its insert committed
C2_Witness ==
    \E p \in Running :
        /\ p.op = "fs" /\ p.pc = "save" /\ p.hit = "inserted"
        /\ Len(p.list) = 2 /\ Len(p.calls) = 1

\* C3: once every operation has returned and none has thrown, the list the
\* engine holds for a shop is the list of the shop's rows in the mirror.
C3_Converged ==
    (Quiet /\ past = "clean") =>
        \A shop \in Shops :
            Range(engine[shop]) = Range(Map(RowsOf(shop), FlaskProduct))

Moved(p, q) ==
    /\ p \in Running
    /\ procs' = (procs (-) SetToBag({p})) (+) SetToBag({q})

Untouched(shop, id) ==
    /\ \A s \in Shops \ {shop} : FindByMerchant(mirror', s) = FindByMerchant(mirror, s)
    /\ SelectSeq(FindByMerchant(mirror', shop), LAMBDA r : r.shopifyProductId # id)
         = SelectSeq(FindByMerchant(mirror, shop), LAMBDA r : r.shopifyProductId # id)

\* C4: the upsert of syncSingleProduct(M, p) keeps the number of rows of M
\* when a row with p's normalized id exists and overwrites that row with
\* p's transformed fields, adds exactly one row otherwise, and changes no
\* row of another product or merchant; its other steps change no row.
C4_UpsertRowCount ==
    [][\A p \in Running :
         p.op = "ssp" =>
           /\ \A q \in BagToSet(procs') :
                (p.pc = "upsert" /\ q = [p EXCEPT !.pc = "read", !.hit = q.hit]
                    /\ Moved(p, q)) =>
                  LET id == normalizeProductId(p.arg[1].id)
                      before == FindByMerchant(mirror, p.shop)
                      after == FindByMerchant(mirror', p.shop)
                  IN /\ Len(after) = Len(before) + (IF id \in IdsOf(before) THEN 0 ELSE 1)
                     /\ \E k \in 1..Len(after) : after[k] = RowFor(p.shop, p.arg[1])
                     /\ Cardinality({k \in 1..Len(after) : after[k].shopifyProductId = id}) = 1
                     /\ Untouched(p.shop, id)
           /\ \A q \in BagToSet(procs') :
                (p.pc \in {"read", "push"} /\ q.op = "ssp" /\ q.arg = p.arg
                    /\ q.pc # p.pc /\ Moved(p, q)) => mirror' = mirror
      ]_vars

\* a product webhook of s1 has overwritten the existing row of product 1
\* while shop s2 holds a row of its own
C4_Witness ==
    \E p \in Running :
        /\ p.op = "ssp" /\ p.shop = "s1" /\ p.hit = "updated" /\ p.pc = "read"
        /\ Len(RowsOf("s2")) = 1

\* C5: a deleteProduct that no other operation overlaps and that leaves its
\* merchant without rows has called clear and made no register call; one
\* that leaves rows has made one register call with exactly those rows and
\* no clear call.
C5_ClearWhenEmpty ==
    \A p \in Running :
        (p.op = "del" /\ p.pc = "done") =>
            LET rows == RowsOf(p.shop) IN
            IF Len(rows) = 0
            THEN p.calls = <<ClearCall>>
            ELSE p.calls = <<RegisterCall(Map(rows, FlaskProduct))>>

\* a delete webhook has removed the last row of s1 and cleared the engine
C5_Witness ==
    \E p \in Running :
        /\ p.op = "del" /\ p.pc = "done" /\ p.shop = "s1" /\ p.hit = "deleted"
        /\ RowsOf("s1") = <<>>
        /\ p.calls = <<ClearCall>>

\* the second of two runs in succession on the same input
Rerun(p, op) ==
    /\ p.op = op /\ p.attempt = 2
    /\ p.snap[1].ok

\* C6: a second fullSync right after a successful first one, fetching the
\* same catalog, is not rejected by the store and ends with the same rows
\* in the mirror and the same list pushed to the engine as the first.
C6_FullSyncIdempotent ==
    \A p \in Running :
        (Rerun(p, "fs") /\ p.pc \notin {"fetch"} /\ p.fetched = p.snap[1].fetched) =>
            /\ p.err \notin {"duplicate", "validation"}
            /\ p.pc = "done" =>
                /\ mirror = p.snap[1].mirror
                /\ p.calls = p.snap[1].calls
                /\ engine = p.snap[1].engine

\* a second fullSync of the same two-product catalog has completed
C6_Witness ==
    \E p \in Running :
        /\ Rerun(p, "fs") /\ p.pc = "done"
        /\ p.fetched = p.snap[1].fetched
        /\ Len(p.fetched) = 2

\* C7: the mirror never holds two rows with the same (merchant, normalized
\* product id), whatever operations overlap.
C7_UniqueRows ==
    \A j, k \in 1..Len(mirror) :
        j # k => ~SameKey(mirror[j], mirror[k].merchantId, mirror[k].shopifyProductId)

\* a fullSync and a product webhook of the same shop overlap: the webhook
\* has written its row between the fullSync's delete-all and bulk insert
C7_Witness ==
    \E p, q \in Running :
        /\ p.op = "fs" /\ p.pc = "insert" /\ q.op = "ssp" /\ q.pc = "read"
        /\ p.shop = q.shop
        /\ q.hit = "inserted"
        /\ \E k \in 1..Len(p.fetched) :
                normalizeProductId(p.fetched[k].id) = normalizeProductId(q.arg[1].id)

Desired == 1..Len(WEBHOOK_SUBSCRIPTIONS)

\* the subscriptions in subs of desired topic t that have a callback address
\* and whose address is (atDesired) or is not the desired one of the call w
AtAddress(subs, w, t, atDesired) ==
    {k \in 1..Len(subs) :
        /\ subs[k].topic = WEBHOOK_SUBSCRIPTIONS[t].topic
        /\ subs[k].address # <<>>
        /\ (normalizeAddress(subs[k].address)
                = w.host \o <<WEBHOOK_SUBSCRIPTIONS[t].path>>) <=> atDesired}

\* C8: registerWebhooks returns created = the number of desired topics with no
\* subscription at the desired address, unchanged = the number of desired
\* topics with at least one there, and removed = the number of subscriptions
\* of desired topics at another address plus the matching ones beyond the
\* first of each topic (addresses compared with trailing slashes stripped, the
\* subscriptions being those that have a callback address).
C8_ReconcileCounts ==
    (wh # <<>> /\ wh[1].pc = "done") =>
        LET w == wh[1]
            matched == {t \in Desired : AtAddress(w.before, w, t, TRUE) # {}}
            others == UNION {AtAddress(w.before, w, t, FALSE) : t \in Desired}
            same == UNION {AtAddress(w.before, w, t, TRUE) : t \in Desired}
        IN  /\ w.created = Cardinality(Desired \ matched)
            /\ w.unchanged = Cardinality(matched)
            /\ w.removed = Cardinality(others) + Cardinality(same) - Cardinality(matched)

\* a call has returned that found one topic with a single stale subscription
\* and no match, and another topic with two matching subscriptions
C8_Witness ==
    /\ wh # <<>> /\ wh[1].pc = "done"
    /\ \E t, u \in Desired :
        /\ Cardinality(AtAddress(wh[1].before, wh[1], t, FALSE)) = 1
        /\ AtAddress(wh[1].before, wh[1], t, TRUE) = {}
        /\ Cardinality(AtAddress(wh[1].before, wh[1], u, TRUE)) = 2
        /\ AtAddress(wh[1].before, wh[1], u, FALSE) = {}

\* C9 (as stated): after registerWebhooks has returned, the platform holds for
\* each desired topic exactly one subscription, and it is at the desired
\* address.
C9_ExactlyOneSubscription ==
    (wh # <<>> /\ wh[1].pc = "done") =>
        \A t \in Desired :
            LET held == {k \in 1..Len(platform) :
                            platform[k].topic = WEBHOOK_SUBSCRIPTIONS[t].topic}
            IN  /\ Cardinality(held) = 1
                /\ \A k \in held :
                        normalizeAddress(platform[k].address)
                            = wh[1].host \o <<WEBHOOK_SUBSCRIPTIONS[t].path>>

\* C9 (amended): after registerWebhooks has returned, the platform holds for
\* each desired topic exactly one subscription with an HTTP callback address,
\* and that address (trailing slashes stripped) is the current base URL plus
\* the topic's path; none with a callback address remains at another address.
C9_ExactlyOneHttpSubscription ==
    (wh # <<>> /\ wh[1].pc = "done") =>
        \A t \in Desired :
            /\ Cardinality(AtAddress(platform, wh[1], t, TRUE)) = 1
            /\ AtAddress(platform, wh[1], t, FALSE) = {}

\* a call has returned that found, for one topic, a stale subscription, a
\* matching one, and one whose endpoint is not an HTTP endpoint
C9_Witness ==
    /\ wh # <<>> /\ wh[1].pc = "done"
    /\ \E t \in Desired :
        /\ AtAddress(wh[1].before, wh[1], t, FALSE) # {}
        /\ AtAddress(wh[1].before, wh[1], t, TRUE) # {}
        /\ \E k \in 1..Len(platform) :
                /\ platform[k].topic = WEBHOOK_SUBSCRIPTIONS[t].topic
                /\ platform[k].address = <<>>

\* C10: a product webhook or a delete webhook delivered a second time right
\* after its first delivery succeeded is processed again (it makes the same
\* engine call) and leaves the mirror and the engine as the first left them.
C10_RedeliveryIdempotent ==
    \A p \in Running :
        ((Rerun(p, "ssp") \/ Rerun(p, "del")) /\ p.pc = "done") =>
            /\ mirror = p.snap[1].mirror
            /\ engine = p.snap[1].engine
            /\ p.calls = p.snap[1].calls
            /\ Len(p.calls) = 1

\* the second delivery of a product webhook has been processed
C10_Witness ==
    \E p \in Running :
        /\ Rerun(p, "ssp") /\ p.pc = "done" /\ p.hit = "updated"
        /\ Len(RowsOf(p.shop)) = 2

----------------------------------------------------------------------------
(* Properties of the webhook routes *)

Answered(p) == p.pc = "answered" /\ p.req # <<>>

\* the request's header is the MAC of its raw body under the app's secret
Signed(request) == request.hmac = Hmac(SHOPIFY_API_SECRET, request.body)

\* the request got past verifyWebhook: signed, and the body parsed
Verified(p) == Signed(p.req[1]) /\ p.req[1].body.kind # "garbage"

\* C11 (as stated): every verified webhook request is answered with the
\* success acknowledgment, also when the call the handler awaited failed.
C11_AlwaysAcknowledged ==
    \A p \in Running : (Answered(p) /\ Verified(p)) => p.res = 200

\* C11 (amended): a verified webhook request is answered 200 exactly when
\* the awaited syncSingleProduct, deleteProduct or deactivate-and-clear
\* returned, and 500 when it threw; the failure is logged.
C11_AcknowledgedIffDone ==
    \A p \in Running :
        (Answered(p) /\ Verified(p)) =>
            /\ p.err = "none" => (p.res = 200 /\ p.log = <<>>)
            /\ p.err # "none" => (p.res = 500 /\ p.log = <<"Webhook error">>)
            /\ p.op \in {"ssp", "del", "unin"}

\* an uninstall webhook whose engine clear failed after the merchant was
\* deactivated has been answered
C11_Witness ==
    \E p \in Running :
        /\ Answered(p) /\ Verified(p)
        /\ p.op = "unin" /\ p.err = "clear" /\ p.hit = "updated"
        /\ ~merchants[p.shop].isActive

----------------------------------------------------------------------------
(* Properties of the product transform *)

Trimmed(t) == t # <<>> /\ t[1] # Space /\ t[Len(t)] # Space

PairwiseDistinct(seq) == \A j, k \in 1..Len(seq) : j # k => seq[j] # seq[k]

RECURSIVE Flatten(_)
Flatten(seqs) == IF seqs = <<>> THEN <<>> ELSE Head(seqs) \o Flatten(Tail(seqs))

\* the characters of the input that are neither white space nor a comma, in
\* order (those of a list's elements one after another)
Letters(rawTags) ==
    SelectSeq(IF rawTags.type = "array" THEN Flatten(Map(rawTags.items, ToStr))
              ELSE IF Falsy(rawTags) THEN <<>> ELSE ToStr(rawTags),
              LAMBDA c : c \notin {Space, Comma})

\* the number of entries of the input that hold a character other than white
\* space: elements of a list, comma-delimited stretches of anything else
Entries(rawTags) ==
    IF rawTags.type = "array"
    THEN Cardinality({k \in 1..Len(rawTags.items) :
                        \E j \in 1..Len(ToStr(rawTags.items[k])) :
                            ToStr(rawTags.items[k])[j] # Space})
    ELSE LET chars == IF Falsy(rawTags) THEN <<>> ELSE ToStr(rawTags)
         IN  Cardinality({k \in 1..Len(chars) :
                /\ chars[k] \notin {Space, Comma}
                /\ \A j \in 1..(k - 1) :
                      (\A i \in j..(k - 1) : chars[i] # Comma) => chars[j] = Space})

Malformed(rawTags) == rawTags.type \notin {"array", "string"}

----------------------------------------------------------------------------
(* Properties of the OAuth routes *)

\* the callbacks in log that presented state token t with all parameters
Presented(log, t) ==
    {k \in 1..Len(log) :
        /\ log[k].kind = "callback" /\ log[k].query.state = t
        /\ log[k].query.shop \in Shops /\ log[k].query.code # ""}

\* the mints in log before position k that gave state token t
MintedBefore(log, k, t) ==
    {j \in 1..(k - 1) : log[j].kind = "mint" /\ log[j].query.state = t}

\* C14: of the callbacks that present one minted state token at most one
\* consumes it, and every callback that presents it after that one is
\* answered 400, also before the token's expiry.
C14_ConsumedOnce ==
    \A t \in 1..Minted :
        /\ Cardinality({k \in Presented(auth, t) : auth[k].consumed}) <= 1
        /\ \A j, k \in Presented(auth, t) :
                (j < k /\ auth[j].consumed) =>
                    /\ ~auth[k].consumed /\ auth[k].status = 400 /\ auth[k].did = {}

\* a state token was consumed by a callback that went through, and presented
\* again for the same shop before its expiry
C14_Witness ==
    \E t \in 1..Minted : \E j, k \in Presented(auth, t) :
        /\ j < k /\ auth[j].consumed /\ auth[j].status = 302
        /\ auth[k].query = auth[j].query
        /\ \E m \in MintedBefore(auth, j, t) : auth[k].at < auth[m].at + OAUTH_STATE_TTL_MS

\* callback k of log presents a state that was never minted, whose expiry
\* time has passed, or that was minted for another shop
BadState(log, k) ==
    LET t == log[k].query.state IN
    \/ MintedBefore(log, k, t) = {}
    \/ \E m \in MintedBefore(log, k, t) :
         \/ log[m].at + OAUTH_STATE_TTL_MS < log[k].at
         \/ log[m].query.shop # log[k].query.shop

\* C15: a callback whose state token was never minted, is past its expiry
\* time or was minted for another shop is answered 400 and does nothing else:
\* no token exchange, no Merchant write, no subscription reconciliation, no
\* fullSync; so a token past its expiry time is never consumed.
C15_FailsClosed ==
    [][\A t \in 1..(Minted + 1) : \A k \in Presented(auth', t) :
         BadState(auth', k) =>
            /\ auth'[k].status = 400 /\ auth'[k].pc = "answered"
            /\ ~auth'[k].consumed /\ auth'[k].did = {}
            /\ k > Len(auth) =>
                  /\ merchants' = merchants /\ procs' = procs
                  /\ wh' = wh /\ platform' = platform
      ]_vars

\* a callback presenting, for the right shop and with a valid signature, a
\* state token one millisecond past its expiry time has been turned away
C15_Witness ==
    \E k \in 1..Len(auth) : \E m \in MintedBefore(auth, k, auth[k].query.state) :
        /\ auth[k].kind = "callback" /\ auth[k].query.hmacOk
        /\ auth[k].query.shop = auth[m].query.shop
        /\ auth[k].at = auth[m].at + OAUTH_STATE_TTL_MS + 1
        /\ auth[k].status = 400

----------------------------------------------------------------------------
(* Properties of the settings API *)

Autopilot(body) == "mode" \in DOMAIN body /\ body.mode = "ai_autopilot"

HoldsDefaults(doc) ==
    /\ "filters" \in DOMAIN doc /\ doc.filters = AI_AUTOPILOT_DEFAULTS.filters
    /\ "weights" \in DOMAIN doc /\ doc.weights = AI_AUTOPILOT_DEFAULTS.weights

\* C16: when a save whose body has mode autopilot is carried out, the
\* merchant's document holds the fixed default filters and weights right
\* after it, whatever filters and weights the body carried; a save that is
\* refused (no shop, no active merchant) leaves the collection as it was.
C16_AutopilotSaveStoresDefaults ==
    [][\A p \in BagToSet(procs') :
          /\ p.op = "saveSettings"
          /\ Autopilot(p.arg)
          /\ CopiesIn(p, procs') > CopiesIn(p, procs)
          => IF ensureMerchant(p.shop)
             THEN /\ p.res = 200
                  /\ HasSettings(settings', p.shop)
                  /\ HoldsDefaults(FindSettings(settings', p.shop))
                  /\ FindSettings(settings', p.shop).mode = "ai_autopilot"
             ELSE /\ p.res \in {400, 500}
                  /\ settings' = settings]_vars

\* an autopilot save with manual filters and weights in its body was carried
\* out on a document that held manual values
C16_Witness ==
    /\ \E p \in Running :
          /\ p.op = "saveSettings" /\ p.res = 200 /\ Autopilot(p.arg)
          /\ "filters" \in DOMAIN p.arg /\ p.arg.filters = ManualFilters
          /\ "weights" \in DOMAIN p.arg /\ p.arg.weights = ManualWeights
    /\ \E p \in Running :
          /\ p.op = "saveSettings" /\ p.res = 200 /\ ~Autopilot(p.arg)
          /\ "filters" \in DOMAIN p.arg /\ p.arg.filters = ManualFilters
    /\ HasSettings(settings, "s1")
    /\ HoldsDefaults(FindSettings(settings, "s1"))

\* C17: whenever the persisted mode of a merchant's settings is autopilot,
\* the persisted filters and weights are the fixed defaults.
C17_AutopilotHoldsDefaults ==
    \A k \in 1..Len(settings) :
        ("mode" \in DOMAIN settings[k] /\ settings[k].mode = "ai_autopilot")
            => HoldsDefaults(settings[k])

----------------------------------------------------------------------------
(* Properties of the recommendation routes and the widget *)

Handled == IF reco = <<>> THEN <<>> ELSE reco[1].handled

\* the product a client's id stands for, in the global-identifier form
GlobalForm(id) == Str(<<GidPrefix, ToStr(id)[Len(ToStr(id))]>>)

\* the recommend call of handler h failed
RecommendThrew(h) == h.route = "recommend" /\ h.pc = "answered" /\ h.threw

Enrichment(item) == {"handle", "product_url"} \subseteq DOMAIN item

CartFirst(query) ==
    IF query.cart.kind = "json" /\ query.cart.value.type = "array"
       /\ query.cart.value.items # <<>> /\ ~Falsy(query.cart.value.items[1])
    THEN <<query.cart.value.items[1]>> ELSE <<>>

\* C13: the recommend call of a request without a current product and with
\* a cart carries the first cart item, in the global-identifier form, as
\* pivot, whatever the history holds; with a current product the pivot is
\* that product. Every request for an active merchant makes the call.
C13_PivotRule ==
    \A i \in 1..Len(Handled) :
        LET h == Handled[i] IN
        h.route = "recommend" =>
            /\ (h.query.shop # NoShop /\ ensureMerchant(h.query.shop))
                  <=> (Len(h.calls) = 1)
            /\ Len(h.calls) = 1 =>
                  /\ ~Falsy(h.query.productId) =>
                        h.calls[1].current_product_id = GlobalForm(h.query.productId)
                  /\ (Falsy(h.query.productId) /\ CartFirst(h.query) # <<>>) =>
                        h.calls[1].current_product_id = GlobalForm(CartFirst(h.query)[1])

\* a request without a current product whose history and cart start with
\* different products was answered from a call with the cart's first as pivot
C13_Witness ==
    \E i \in 1..Len(Handled) :
        LET h == Handled[i] IN
        /\ h.route = "recommend" /\ h.pc = "answered" /\ h.status = 200
        /\ Falsy(h.query.productId)
        /\ CartFirst(h.query) # <<>>
        /\ IdsOfText(h.query.history) # <<>>
        /\ IdsOfText(h.query.history)[1] # GlobalForm(CartFirst(h.query)[1])
        /\ h.calls[1].current_product_id = Str(Gid(2))

----------------------------------------------------------------------------
(* Properties of syncAllMerchants *)

\* C19: syncAllMerchants runs at most one fullSync at a time, in the order of
\* the active merchants it read; a fullSync that throws does not end the
\* call; and the list it returns has one entry per active merchant, in
\* order, with the shop, the success flag (true exactly when that
\* merchant's fullSync completed) and the error message of a failed one.
C19_BatchIsolatesFailures ==
    batch # <<>> =>
        LET b == batch[1] IN
        /\ BagCardinality(procs) <= 1
        /\ b.pc \in {"loop", "returned"}
        /\ Len(b.results) = b.next - 1
        /\ \A p \in Running : p.op = "fs" /\ p.shop = b.merchants[b.next]
        /\ \A i \in 1..Len(b.results) :
              /\ b.results[i].shop = b.merchants[i]
              /\ b.results[i].success <=> (b.results[i].error = "none")
              /\ b.results[i].success => merchants[b.merchants[i]].lastSync > 0
              /\ ~b.results[i].success => merchants[b.merchants[i]].lastSync = 0
        /\ b.pc = "returned" =>
              /\ Len(b.results) = Len(b.merchants)
              /\ Quiet
              /\ \A shop \in Shops :
                    (\E i \in 1..Len(b.results) : b.results[i].shop = shop)
                        <=> (merchants[shop].exists /\ merchants[shop].isActive)

\* the first merchant's fullSync threw, the second merchant was synced all
\* the same, and the call returned both entries
C19_Witness ==
    /\ batch # <<>>
    /\ batch[1].pc = "returned"
    /\ Len(batch[1].results) = 2
    /\ ~batch[1].results[1].success
    /\ batch[1].results[1].error = "register"
    /\ batch[1].results[2].success
    /\ RowsOf("s2") # <<>>

----------------------------------------------------------------------------
(* C21: the life of a Merchant record *)

\* the step is the uninstall handler's findOneAndUpdate for the shop
Deactivated(shop) ==
    \E p \in Running :
        /\ p.op = "unin" /\ p.shop = shop /\ p.pc = "deactivate"
        /\ \E hit \in {"updated", "none"} :
              procs' = (procs (-) SetToBag({p}))
                       (+) SetToBag({[p EXCEPT !.pc = "clear", !.hit = hit]})

\* the step is a callback's merchant.save() for the shop, and it succeeded
Saved(shop) ==
    \E k \in 1..Len(auth) :
        /\ auth[k].query.shop = shop
        /\ auth[k].pc = "save" /\ auth'[k].pc = "register"

\* C21: a Merchant record is never removed by any step; the uninstall
\* handler's update only sets isActive to false on it; a callback's successful
\* save for a shop that has a record only sets isActive to true on that record
\* (and creates the record otherwise); no shop ever has two records.
C21_MerchantRecordKept ==
    [][\A shop \in Shops :
        /\ merchants[shop].exists => merchants'[shop].exists
        /\ merchants'[shop].copies <= 1
        /\ Deactivated(shop) =>
              merchants'[shop] = IF merchants[shop].exists
                                 THEN [merchants[shop] EXCEPT !.isActive = FALSE]
                                 ELSE merchants[shop]
        /\ Saved(shop) =>
              merchants'[shop] = IF merchants[shop].exists
                                 THEN [merchants[shop] EXCEPT !.isActive = TRUE]
                                 ELSE NewMerchant]_vars

\* s2 was created by one callback, uninstalled, and reactivated by a second
\* callback that found the record; its full sync has stamped lastSync since
C21_Witness ==
    /\ merchants["s2"].exists /\ merchants["s2"].isActive
    /\ merchants["s2"].copies = 1 /\ merchants["s2"].lastSync > 0
    /\ \E p \in Running : p.op = "unin" /\ p.shop = "s2" /\ p.hit = "updated"
    /\ \E j, k \in 1..Len(auth) :
          /\ j < k
          /\ "save" \in auth[j].did /\ ~auth[j].found
          /\ "save" \in auth[k].did /\ auth[k].found

----------------------------------------------------------------------------
(* C22: the replacement of a merchant's rows and the other operations *)

\* a full sync of the shop, other than q, has deleted the rows and has not
\* finished its bulk insert
Replacing(shop, q) ==
    \E p \in BagToSet(procs (-) SetToBag({q})) :
        p.op = "fs" /\ p.shop = shop /\ p.pc = "insert"

\* the step is operation q's read or write of the Product rows, carried out
TouchesRows(q) ==
    /\ q.pc \in {"upsert", "read", "delete", "insert"}
    /\ \E r \in BagToSet(procs') :
          /\ r.pc # "failed"
          /\ procs' = (procs (-) SetToBag({q})) (+) SetToBag({r})
          /\ procs' # procs

\* C22: while a full sync of a merchant is between its delete-all and the
\* completion of its bulk insert, no other operation reads or writes that
\* merchant's Product rows.
C22_ReplacementAtomic ==
    [][\A q \in Running : Replacing(q.shop, q) => ~TouchesRows(q)]_vars

----------------------------------------------------------------------------
(* C23: a full sync whose catalog fetch fails *)

\* the step is full sync p's page request, and q is p afterwards
FetchStep(p, q) ==
    /\ p.op = "fs" /\ p.pc = "fetch"
    /\ procs' # procs
    /\ procs' = (procs (-) SetToBag({p})) (+) SetToBag({q})

\* C23: no page request of a full sync, answered or failed, changes the
\* Product rows, the engine's lists or a merchant's lastSync; a full sync
\* whose fetch has thrown ends there, having written no row and made no engine
\* call, whatever pages it had read before.
C23_FetchFailureChangesNothing ==
    [][\A p \in Running : \A q \in BagToSet(procs') :
          FetchStep(p, q) =>
              /\ mirror' = mirror /\ engine' = engine /\ merchants' = merchants
              /\ q.err = "fetch" =>
                    /\ q.pc = "failed" /\ q.calls = <<>>
                    /\ q.list = <<>> /\ q.hit = "none"]_vars

\* the first operation since the start, a full sync of s1, has read one page
\* of the catalog and failed on the next: rows, engine and lastSync are as
\* they were
C23_Witness ==
    /\ started = 1
    /\ \E p \in Running :
          /\ p.op = "fs" /\ p.shop = "s1" /\ p.pc = "failed" /\ p.err = "fetch"
          /\ Len(p.fetched) >= 1
    /\ mirror = <<InitialRow>> /\ engine = InitialEngine
    /\ merchants = InitialMerchants

----------------------------------------------------------------------------
(* C28: a full sync whose push to the engine fails *)

\* the step is full sync p's registerMerchantProducts call, and q is p
\* afterwards
PushStep(p, q) ==
    /\ p.op = "fs" /\ p.pc = "push"
    /\ procs' # procs
    /\ procs' = (procs (-) SetToBag({p})) (+) SetToBag({q})

\* C28: with operations running one after another, a full sync whose push
\* fails ends as failed (the error reaches its caller), the failing step
\* leaves lastSync, the rows and the engine as they are, and the merchant's
\* rows are the ones the sync has just inserted; a full sync that has failed
\* in the push is never the one that stamps lastSync.
C28_PushFailureKeepsRows ==
    [][\A p \in Running : \A q \in BagToSet(procs') :
          (PushStep(p, q) /\ q.err = "register") =>
              /\ q.pc = "failed" /\ q.calls = <<>>
              /\ merchants' = merchants
              /\ engine' = engine
              /\ mirror' = mirror
              /\ p.hit = "inserted"
              /\ RowsOf(p.shop) = p.list]_vars

\* the first operation since the start, a full sync of s1 that inserted two
\* rows, has failed in the push: the two rows are in the mirror, the engine
\* holds the earlier list and lastSync is unset
C28_Witness ==
    /\ started = 1
    /\ \E p \in Running :
          /\ p.op = "fs" /\ p.shop = "s1" /\ p.pc = "failed" /\ p.err = "register"
          /\ Len(p.list) = 2 /\ RowsOf("s1") = p.list
    /\ engine = InitialEngine
    /\ merchants["s1"].lastSync = 0

----------------------------------------------------------------------------
(* C29: register calls with an empty list *)

\* C29: no operation has made a register call with an empty product list.
C29_NoEmptyRegister ==
    \A p \in Running :
        \A i \in 1..Len(p.calls) : p.calls[i] # RegisterCall(<<>>)

----------------------------------------------------------------------------
(* C30: product webhooks after the uninstall *)

\* the uninstall handler has set the shop's merchant inactive and cleared the
\* engine, and the merchant is still inactive
Uninstalled(shop) ==
    /\ merchants[shop].exists /\ ~merchants[shop].isActive
    /\ \E u \in Running : u.op = "unin" /\ u.shop = shop /\ u.calls = <<ClearCall>>

\* C30: when the uninstall handler has deactivated a merchant and cleared the
\* engine, the engine holds no product of the shop from an operation that found
\* the merchant inactive: no product webhook handled after the deactivation
\* has registered products.
C30_NoRegisterWhileInactive ==
    \A shop \in Shops :
        Uninstalled(shop) =>
            \/ engine[shop] = <<>>
            \/ ~ \E p \in Running :
                    /\ p.op \in {"ssp", "del"} /\ p.shop = shop
                    /\ p.merchant = <<[isActive |-> FALSE]>>
                    /\ \E i \in 1..Len(p.calls) :
                          /\ p.calls[i].kind = "register"
                          /\ p.calls[i].products = engine[shop]

----------------------------------------------------------------------------
(* C24: attempts of a platform API request *)

RetriedStatus(status) == status = 429 \/ status \in 500..599

\* C24: a request posts at most 3 times; every post but the last was answered
\* 429 or 5xx and was followed by a wait of 300 ms times its number before the
\* next post; the call has returned exactly when its last post succeeded, and
\* then with that post's data; it has thrown the last post's error when that
\* post failed with another error or was the third; and it posts again only
\* after such a wait.
C24_BoundedRetry ==
    \A k \in 1..Len(gql) :
        LET g == gql[k]
            n == Len(g.posts)
            last == g.posts[n].response
        IN  /\ n <= 3
            /\ g.attempt = IF g.pc = "post" THEN n + 1 ELSE IF n = 0 THEN 1 ELSE n
            /\ \A i \in 1..(n - 1) :
                  /\ Rejected(g.posts[i].response)
                  /\ RetriedStatus(g.posts[i].response.status)
                  /\ g.posts[i + 1].at = g.posts[i].at + 300 * i
            /\ Len(g.waits) = IF g.pc = "post" THEN n ELSE IF n = 0 THEN 0 ELSE n - 1
            /\ \A i \in 1..Len(g.waits) : g.waits[i] = 300 * i
            /\ (g.pc = "post" /\ n > 0) =>
                  Rejected(last) /\ RetriedStatus(last.status)
            /\ g.pc = "wait" =>
                  n \in 1..2 /\ Rejected(last) /\ RetriedStatus(last.status)
            /\ g.pc = "returned" =>
                  /\ n >= 1 /\ ~Rejected(last)
                  /\ g.result = DataOf(last)
            /\ (g.pc = "thrown" /\ n > 0) =>
                  /\ Rejected(last)
                  /\ g.lastError = <<ErrorOf(last)>>
                  /\ n = 3 \/ ~RetriedStatus(last.status) \/ Len(last.errors) > 0
            /\ (n > 0 /\ ~Rejected(last)) => g.pc = "returned"
            /\ (n > 0 /\ Rejected(last) /\ ~RetriedStatus(last.status)) => g.pc = "thrown"
            /\ n = 3 => g.pc \in {"returned", "thrown"}

\* a request was answered 429, waited 300 ms, was answered 503, waited 600 ms
\* and has thrown the 500 of its third post
C24_Witness ==
    /\ gql # <<>> /\ gql[1].pc = "thrown"
    /\ Len(gql[1].posts) = 3
    /\ gql[1].posts[1].response.status = 429
    /\ gql[1].posts[2].response.status = 503
    /\ gql[1].posts[3].response.status = 500
    /\ gql[1].waits = <<300, 600>>
    /\ now = 900

----------------------------------------------------------------------------
(* C25: userErrors of a subscription mutation *)

\* C25: the step in which a create or delete mutation of a registerWebhooks
\* call returns userErrors ends the call as failed with the messages joined
\* by "; " as its error, counts nothing and changes no subscription; and
\* from a failed call no step creates or deletes a subscription or sends the
\* mutation again: the only step is the start of the next call.
C25_UserErrorsFailTheRun ==
    [][/\ (wh # <<>> /\ wh' # <<>> /\ wh[1].userErrors = <<>> /\ wh'[1].userErrors # <<>>) =>
            /\ wh[1].pc \in {"stale", "duplicates", "create"}
            /\ wh'[1].pc = "failed"
            /\ wh'[1].err = Join(Map(wh'[1].userErrors, LAMBDA entry : entry.message))
            /\ wh'[1] = [wh[1] EXCEPT !.pc = "failed", !.err = wh'[1].err,
                                      !.userErrors = wh'[1].userErrors]
            /\ platform' = platform
       /\ (wh # <<>> /\ wh[1].pc = "failed") =>
            /\ platform' = platform
            /\ wh' = wh \/ (wh'[1].run = wh[1].run + 1 /\ wh'[1].userErrors = <<>>)]_vars

\* a call that deleted a stale subscription has failed on the create that
\* followed, with two userErrors
C25_Witness ==
    /\ wh # <<>> /\ wh[1].pc = "failed"
    /\ Len(wh[1].userErrors) = 2
    /\ wh[1].err = "Address is invalid; Topic has already been taken"
    /\ wh[1].removed = 1 /\ wh[1].created = 0
    /\ Len(platform) = Len(wh[1].before) - 1

----------------------------------------------------------------------------
(* C26: a failed registerWebhooks at the start and in the install callback *)

\* the shops of the log entries of one step, in order
ShopsLogged(log, step) ==
    Map(SelectSeq(log, LAMBDA entry : entry.step = step), LAMBDA entry : entry.shop)

\* C26: in the startup pass every registerWebhooks call, returned or thrown,
\* is followed by the Product.find of the same merchant, and a find that
\* returned rows by the register call for that merchant; when the pass is
\* over, registerWebhooks and Product.find have run for every active merchant
\* in turn; the start never exits once the database is connected, and it
\* always has a next step until the server listens.  In the install
\* callback a thrown registerWebhooks is followed by the fullSync call and
\* the redirect.
C26_HooksFailureCaught ==
    /\ \A n \in 1..Len(boot) :
        LET b == boot[n]
            log == b.log
        IN  /\ \A j \in 1..Len(log) :
                  /\ log[j].step = "registerWebhooks" =>
                        IF j < Len(log)
                        THEN log[j + 1].step = "Product.find" /\ log[j + 1].shop = log[j].shop
                        ELSE b.pc = "products" /\ b.merchants[b.i] = log[j].shop
                  /\ (log[j].step = "Product.find" /\ log[j].outcome = "some") =>
                        IF j < Len(log)
                        THEN log[j + 1].step = "register" /\ log[j + 1].shop = log[j].shop
                        ELSE b.pc = "push" /\ b.merchants[b.i] = log[j].shop
            /\ (b.pc \in {"listen", "listening"} /\ b.merchants # <<>>) =>
                  /\ ShopsLogged(log, "registerWebhooks") = b.merchants
                  /\ ShopsLogged(log, "Product.find") = b.merchants
            /\ b.pc = "exited" => log = <<>> /\ b.merchants = <<>>
            /\ b.pc \notin {"listening", "exited"} => ENABLED BootSteps
    /\ \A k \in 1..Len(auth) :
          "registerWebhooks threw" \in auth[k].did =>
              /\ "fullSync" \in auth[k].did
              /\ auth[k].status = 302
              /\ \E p \in Running : p.op = "fs" /\ p.shop = auth[k].query.shop

\* the start found two active merchants; registerWebhooks threw for the first,
\* whose products were registered all the same, and the second was processed;
\* the server listens, and an install callback whose registerWebhooks threw has
\* called fullSync
C26_Witness ==
    /\ At("listening")
    /\ boot[1].merchants = <<"s1", "s2">>
    /\ \E j \in 1..Len(boot[1].log) :
          /\ boot[1].log[j] = [shop |-> "s1", step |-> "registerWebhooks", outcome |-> "threw"]
          /\ boot[1].log[j + 2] = [shop |-> "s1", step |-> "register", outcome |-> "returned"]
    /\ \E j \in 1..Len(boot[1].log) :
          boot[1].log[j] = [shop |-> "s2", step |-> "register", outcome |-> "returned"]
    /\ \E k \in 1..Len(auth) : "registerWebhooks threw" \in auth[k].did

----------------------------------------------------------------------------
(* C27: the homepage boost of GET /api/recommend                           *)

\* the engine answers handler i of GET /api/recommend with a list, for a
\* request without a product id and with a non-empty history
BoostStep(i, outcome) ==
    /\ EngineAnswers(i, outcome)
    /\ outcome.ok /\ outcome.listed
    /\ reco[1].handled[i].route = "recommend"
    /\ Falsy(reco[1].handled[i].query.productId)
    /\ Len(IdsOfText(reco[1].handled[i].query.history)) > 0

\* the ids of the engine's result
EngineIds(outcome) ==
    {outcome.items[j].shopify_product_id : j \in 1..Len(outcome.items)}

\* the history items of a query that the engine's result lacks
AbsentViewed(query, outcome) ==
    {id \in Range(IdsOfText(query.history)) :
        id.type # "string" \/ id.chars \notin EngineIds(outcome)}

\* those of them that the mirror holds for the shop
ViewedInMirror(query, outcome) ==
    {id.chars : id \in {a \in AbsentViewed(query, outcome) :
        /\ a.type = "string"
        /\ \E r \in 1..Len(mirror) :
              /\ mirror[r].merchantId = query.shop
              /\ mirror[r].shopifyProductId = a.chars}}

\* C27 as stated: when the engine returned no more than the limit, every
\* history item that its result lacks and the mirror holds is in the response
\* before every engine-returned item, with reason "Recently viewed" and score
\* 1.0, and the response has at most the requested limit of items
C27_EveryViewedItemFirst ==
    [][\A i \in 1..2, outcome \in EngineOutcomes :
          (BoostStep(i, outcome)
           /\ Len(outcome.items) <= ParseInt(reco[1].handled[i].query.k, 10)) =>
          LET query == reco[1].handled[i].query
              body == reco'[1].handled[i].body
          IN  /\ Len(body) <= ParseInt(query.k, 10)
              /\ \A id \in ViewedInMirror(query, outcome) :
                    \E n \in 1..Len(body) :
                        /\ body[n].shopify_product_id = id
                        /\ body[n].reason = "Recently viewed"
                        /\ body[n].score = 100
                        /\ \A j \in 1..Len(body) :
                              body[j].shopify_product_id \in EngineIds(outcome) => n < j
      ]_vars

\* C27 (amended): when the engine's result lacks a history item, the response
\* is the first `limit` items of the list that holds the lacking items found
\* in the mirror, each once with reason "Recently viewed" and score 1.0,
\* followed by the engine's items in the engine's order: the viewed items come
\* before every engine-returned item, and what exceeds the limit is dropped,
\* viewed items included.  When the result lacks none, the response holds the
\* engine's items.
C27_ViewedFirstThenCut ==
    [][\A i \in 1..2, outcome \in EngineOutcomes :
          BoostStep(i, outcome) =>
          LET query == reco[1].handled[i].query
              body == reco'[1].handled[i].body
              limit == ParseInt(query.k, 10)
              viewed == ViewedInMirror(query, outcome)
              total == Cardinality(viewed) + Len(outcome.items)
              front == IF Cardinality(viewed) < Len(body) THEN Cardinality(viewed)
                       ELSE Len(body)
              engineItemOf(item) ==
                  [shopify_product_id |-> item.shopify_product_id,
                   score |-> item.score, reason |-> item.reason]
          IN  IF AbsentViewed(query, outcome) = {}
              THEN /\ Len(body) = Len(outcome.items)
                   /\ \A n \in 1..Len(body) : engineItemOf(body[n]) = outcome.items[n]
              ELSE /\ Len(body) = IF limit < total THEN limit ELSE total
                   /\ \A n \in 1..front :
                         /\ body[n].shopify_product_id \in viewed
                         /\ body[n].reason = "Recently viewed"
                         /\ body[n].score = 100
                         /\ \A j \in 1..front :
                               body[j].shopify_product_id = body[n].shopify_product_id
                                  => j = n
                   /\ \A n \in (front + 1)..Len(body) :
                         engineItemOf(body[n]) = outcome.items[n - front]
      ]_vars

\* a request with limit 1 and a history of two products, both in the mirror,
\* was answered with one item, a viewed one
C27_Witness ==
    /\ reco # <<>>
    /\ \E i \in 1..Len(reco[1].handled) :
          LET h == reco[1].handled[i]
          IN  /\ h.pc = "answered" /\ h.route = "recommend" /\ h.status = 200
              /\ Falsy(h.query.productId)
              /\ ParseInt(h.query.k, 10) = 1
              /\ IdsOfText(h.query.history) = <<Str(Gid(2)), Str(Gid(1))>>
              /\ Len(h.body) = 1
              /\ h.body[1].reason = "Recently viewed" /\ h.body[1].score = 100

====
